---- MODULE Spec2Model ----
(***************************************************************************)
(* bgit: payment-gated git wrapper.  Model of the dispatch pipeline        *)
(* (index.js main, lib/command-router.js), the payment executor            *)
(* (lib/payment.js), the session validator (lib/token-manager.js), the     *)
(* credential store (lib/config.js, lib/crypto.js) and the authentication  *)
(* orchestrator (lib/auth.js, lib/oauth-server.js).                        *)
(*                                                                         *)
(* Amounts are in satoshis (0.001 BSV = 100000), times in milliseconds.    *)
(* JavaScript strings are TLA+ strings; "" is the empty string and also    *)
(* stands for null / undefined where the code only tests truthiness.       *)
(***************************************************************************)
EXTENDS Integers, Sequences, FiniteSets, TLC

VARIABLES
    configDir,        \* ~/.bgit: whether it exists, and its permission bits
    configFile,       \* ~/.bgit/config.json
    saltFile,         \* ~/.bgit/.salt
    validationCache,  \* the Map of lib/token-manager.js (per process)
    now,              \* Date.now()
    pc,               \* position of the main flow of the process
    args,             \* process.argv.slice(2)
    envToken,         \* process.env.HANDCASH_AUTH_TOKEN ("" when unset)
    authToken,        \* the token the main flow holds ("" for null)
    exitCode,         \* the code given to process.exit, once pc = "exited"
    pay,              \* frame of the executePayment call in flight
    tv,               \* frame of the isTokenValid call in flight
    oauth,            \* the OAuth callback listener and its pending promise
    log               \* what this process has done so far (observable effects)

\* ------------------------------------------------------------------------
\* Program constants (lib/constants.js)
\* ------------------------------------------------------------------------
PAYMENT_RETRY_MAX_ATTEMPTS == 3
PAYMENT_RETRY_BASE_DELAY_MS == 1000
PAYMENT_RETRY_MAX_DELAY_MS == 10000
PAYMENT_AMOUNT_COMMIT == 100000
PAYMENT_AMOUNT_PUSH == 100000
TOKEN_VALIDATION_CACHE_TTL_MS == 3600000
OAUTH_PORT_START == 3333
OAUTH_PORT_END == 3333
OAUTH_TIMEOUT_MS == 300000
CRYPTO_IV_LENGTH == 12
CRYPTO_SALT_LENGTH == 32
CRYPTO_TAG_LENGTH == 16
DIR_PERMISSIONS == 448
FILE_PERMISSIONS == 384

\* ------------------------------------------------------------------------
\* Bounds of the model
\* ------------------------------------------------------------------------
\* largest options.maxRetries a caller of executePayment passes
MaxRetriesOption == 6
\* the clock stops advancing after this many cache lifetimes
MaxClockTtls == 1
\* isTokenValid calls made on one validator
MaxValidatorCalls == 3

\* ------------------------------------------------------------------------
\* String primitives of JavaScript used by the code
\* ------------------------------------------------------------------------
UpperLetters == "ABCDEFGHIJKLMNOPQRSTUVWXYZ"
LowerLetters == "abcdefghijklmnopqrstuvwxyz"

\* String.prototype.includes
Includes(s, k) ==
    \E i \in 1..(Len(s) - Len(k) + 1) : SubSeq(s, i, i + Len(k) - 1) = k

\* one character of String.prototype.toLowerCase
LowerChar(c) ==
    IF \E i \in 1..26 : SubSeq(UpperLetters, i, i) = c
    THEN LET i == CHOOSE j \in 1..26 : SubSeq(UpperLetters, j, j) = c
         IN  SubSeq(LowerLetters, i, i)
    ELSE c

RECURSIVE ToLowerCase(_)
ToLowerCase(s) ==
    IF Len(s) = 0 THEN ""
    ELSE LowerChar(SubSeq(s, 1, 1)) \o ToLowerCase(SubSeq(s, 2, Len(s)))

\* String.prototype.substring(0, n)
Substring0(s, n) == IF Len(s) <= n THEN s ELSE SubSeq(s, 1, n)

Min(a, b) == IF a <= b THEN a ELSE b

RECURSIVE Pow2(_)
Pow2(n) == IF n <= 0 THEN 1 ELSE 2 * Pow2(n - 1)

\* ------------------------------------------------------------------------
\* lib/payment.js: pure helpers
\* ------------------------------------------------------------------------
\* a linear schedule, which the retry-schedule property must tell apart
getBackoffDelayLinear(attempt) ==
    Min(PAYMENT_RETRY_BASE_DELAY_MS * (attempt + 1), PAYMENT_RETRY_MAX_DELAY_MS)

\* getBackoffDelay(attempt), attempt 0-indexed
getBackoffDelay(attempt) ==
    Min(PAYMENT_RETRY_BASE_DELAY_MS * Pow2(attempt), PAYMENT_RETRY_MAX_DELAY_MS)

retryableKeywords ==
    {"network", "timeout", "econnrefused", "enotfound", "etimedout", "socket hang up"}

nonRetryableKeywords ==
    {"insufficient", "balance", "invalid token", "unauthorized", "forbidden"}

\* isRetryableError(error): the retryable keywords are looked for first
isRetryableError(message) ==
    LET m == ToLowerCase(message)
    IN  IF \E k \in retryableKeywords : Includes(m, k) THEN TRUE
        ELSE IF \E k \in nonRetryableKeywords : Includes(m, k) THEN FALSE
        ELSE TRUE

TypeErrorUndefinedMessage == "Cannot read properties of undefined (reading 'message')"

\* enhancePaymentError(error).message; error undefined raises a TypeError
enhancePaymentError(message) ==
    LET m == ToLowerCase(message)
    IN  IF Includes(m, "insufficient") \/ Includes(m, "balance")
        THEN "Insufficient balance in your HandCash wallet.\nAdd funds at: https://handcash.io\nOriginal error: " \o message
        ELSE IF Includes(m, "unauthorized") \/ Includes(m, "invalid token")
        THEN "Your authentication has expired.\nPlease run: bgit auth login\nOriginal error: " \o message
        ELSE IF Includes(m, "network") \/ Includes(m, "timeout")
        THEN "Network error - please check your internet connection and try again.\nOriginal error: " \o message
        ELSE IF Includes(m, "api") \/ Includes(m, "handcash")
        THEN "HandCash API error - the service may be temporarily unavailable.\nPlease try again later.\nOriginal error: " \o message
        ELSE "Payment failed: " \o message

\* ------------------------------------------------------------------------
\* The remote provider (environment): error texts account.wallet.pay can
\* reject with
\* ------------------------------------------------------------------------
ProviderErrors ==
    { "Network timeout",
      "socket hang up",
      "Insufficient funds",
      "Invalid token",
      "401 Unauthorized",
      "403 Forbidden",
      "Insufficient balance to cover the network fee",
      "Request timeout while checking unauthorized session",
      "Internal server error" }

\* ------------------------------------------------------------------------
\* Inputs
\* ------------------------------------------------------------------------
\* session tokens the provider has issued
Tokens == {"tokA", "tokB"}

\* amounts a caller may pass to executePayment
AmountInputs == {0 - PAYMENT_AMOUNT_PUSH, 0, PAYMENT_AMOUNT_PUSH}

NoteInputs == {"", "Push: main"}

\* ------------------------------------------------------------------------
\* State
\* ------------------------------------------------------------------------
vars ==
    <<configDir, configFile, saltFile, validationCache, now, pc, args, envToken,
      authToken, exitCode, pay, tv, oauth, log>>

diskVars == <<configDir, configFile, saltFile>>

NoPay ==
    [ status |-> "none", caller |-> "none", amount |-> 0, note |-> "", token |-> "",
      description |-> "", maxRetries |-> 0, checkBalance |-> FALSE, attempt |-> 0,
      lastError |-> "", thrown |-> "",
      balance |-> "none" ]    \* how the balance query ended: "error", "low", "enough"

\* the last call made on the credential store, and what it answered
NoStoreOp ==
    [ op |-> "none",        \* "saveToken", "loadToken", "deleteToken", "hasToken",
                            \* "setPaymentMode"
      kind |-> "none",      \* "ok", "error", "null", "token", "true", "false"
      token |-> "",         \* the token loadToken returned
      error |-> "",         \* the message of the error raised
      saved |-> "",         \* the token of the last saveToken that succeeded, ""
                            \* when there was none since the last deleteToken
      modeSet |-> FALSE ]   \* setPaymentMode succeeded since the last deleteToken

EmptyLog ==
    [ payCalls |-> 0,          \* executePayment invocations
      accountLookups |-> 0,    \* getAccountFromAuthToken calls made for a payment
      balanceQueries |-> 0,    \* wallet.getSpendableBalance calls
      payAttempts |-> 0,       \* wallet.pay calls
      paySuccesses |-> 0,      \* wallet.pay calls that resolved
      payFailures |-> 0,       \* wallet.pay calls that rejected
      sleeps |-> <<>>,         \* delays passed to sleep(), in order
      warnings |-> 0,          \* console.warn calls
      authCalls |-> 0,         \* ensureAuthenticated invocations
      storeReads |-> 0,        \* hasToken and loadToken calls
      oauthFlows |-> 0,        \* initiateOAuthFlow invocations
      profileLookups |-> 0,    \* profile.getCurrentProfile calls
      cacheHits |-> 0,         \* isTokenValid calls answered from the cache
      gitRuns |-> 0,           \* spawn('git', ...) calls
      gitCode |-> 0,           \* what executeGitCommand last resolved with
      git |-> [kind |-> "none", code |-> 0],
                               \* how the git child process ended
      validatorCalls |-> 0,    \* isTokenValid invocations
      stopCalls |-> 0,         \* stopOAuthServer calls on a live server
      error |-> "",            \* the message the process printed as its error
      mode |-> "",             \* the payment mode stored when the process started
      store |-> NoStoreOp,
      handle |-> [t \in Tokens |-> FALSE],
                               \* per token, whether the provider's last answer
                               \* was a profile with a non-empty handle
      verdictAt |-> [t \in Tokens |-> 0 - 1] ]
                               \* per token, when its last remote verdict
                               \* arrived; -1: none since the cache was
                               \* last cleared (or the process started)

\* initialization vectors crypto.randomBytes can return for one encryption
IVs == {"iv1", "iv2"}

\* salts crypto.randomBytes can return for generateSalt
Salts == {"saltA", "saltB"}

\* ------------------------------------------------------------------------
\* lib/crypto.js, with AES-256-GCM and PBKDF2 as symbolic terms: a key is
\* the pair it was derived from; a ciphertext and a tag name the plaintext,
\* key and iv they were computed from.  The three fields of a record are hex
\* text; `edit` says how the text differs from the text encrypt wrote:
\*   "none"    not at all
\*   "digit"   one hex digit is another hex digit (one byte has another value)
\*   "case"    one letter a-f is in upper case (the bytes are the same)
\*   "nonhex"  one character of byte `at` (0-indexed) is no hex digit
\*   "missing" the field is not there, or is the empty string
\* ------------------------------------------------------------------------
HexEdits == {"none", "digit", "case", "nonhex", "missing"}

\* Buffer.from(text, 'hex') of a field that is `bytes` bytes long when
\* unedited: decoding stops at the first pair that is not hex; [len, differs]
\* with differs: a decoded byte is not the byte encrypt wrote at its place
FromHex(field, bytes) ==
    IF field.edit = "nonhex" THEN [len |-> field.at, differs |-> FALSE]
    ELSE [len |-> bytes, differs |-> field.edit = "digit"]

\* tag lengths decipher.setAuthTag accepts for GCM when createDecipheriv was
\* given no authTagLength
GcmTagLengths == {4, 8, 12, 13, 14, 15, 16}

deriveKey(password, salt) == [secret |-> password, salt |-> salt]

NoEncrypted ==
    [ present |-> FALSE,
      ciphertext |-> [plain |-> "", key |-> deriveKey("", ""), iv |-> "",
                      edit |-> "missing", at |-> 0],
      iv |-> [val |-> "", edit |-> "missing", at |-> 0],
      authTag |-> [plain |-> "", key |-> deriveKey("", ""), iv |-> "",
                   edit |-> "missing", at |-> 0] ]

\* a cipher that keeps the first three characters of the plaintext only,
\* which the round-trip property must tell apart
encryptTruncated(plaintext, key, iv) ==
    [ present |-> TRUE,
      ciphertext |-> [plain |-> Substring0(plaintext, 3), key |-> key, iv |-> iv,
                      edit |-> "none", at |-> 0],
      iv |-> [val |-> iv, edit |-> "none", at |-> 0],
      authTag |-> [plain |-> Substring0(plaintext, 3), key |-> key, iv |-> iv,
                   edit |-> "none", at |-> 0] ]

\* encrypt(plaintext, key) for the random iv drawn; plaintext is non-empty
encrypt(plaintext, key, iv) ==
    [ present |-> TRUE,
      ciphertext |-> [plain |-> plaintext, key |-> key, iv |-> iv,
                      edit |-> "none", at |-> 0],
      iv |-> [val |-> iv, edit |-> "none", at |-> 0],
      authTag |-> [plain |-> plaintext, key |-> key, iv |-> iv,
                   edit |-> "none", at |-> 0] ]

\* bytes of the ciphertext of a record: as many as the plaintext has
\* (tokens are ASCII, GCM adds no padding)
CiphertextLength(encrypted) == Len(encrypted.ciphertext.plain)

\* a tag check that accepts whatever tag it is given, which the corruption
\* property must tell apart
AuthTagVerifiesAny(encrypted, key) == TRUE

\* decipher.final(): the tag given to setAuthTag verifies when its bytes are
\* the first bytes of the tag the cipher computes for the decoded ciphertext
\* under the key and the decoded iv
AuthTagVerifies(encrypted, key) ==
    LET ct  == FromHex(encrypted.ciphertext, CiphertextLength(encrypted))
        iv  == FromHex(encrypted.iv, CRYPTO_IV_LENGTH)
        tag == FromHex(encrypted.authTag, CRYPTO_TAG_LENGTH)
    IN  /\ ct.len = CiphertextLength(encrypted) /\ ~ct.differs
        /\ iv.len = CRYPTO_IV_LENGTH /\ ~iv.differs
        /\ ~tag.differs
        /\ encrypted.ciphertext.key = key
        /\ encrypted.ciphertext.iv = encrypted.iv.val
        /\ encrypted.authTag.key = key
        /\ encrypted.authTag.iv = encrypted.iv.val
        /\ encrypted.authTag.plain = encrypted.ciphertext.plain

\* decrypt(encrypted, key): [ok, plaintext, error]
decrypt(encrypted, key) ==
    LET fail(message) == [ok |-> FALSE, plaintext |-> "", error |-> message]
    IN  IF \/ ~encrypted.present
           \/ encrypted.ciphertext.edit = "missing"
           \/ encrypted.iv.edit = "missing"
           \/ encrypted.authTag.edit = "missing"
        THEN fail("Encrypted data must contain ciphertext, iv, and authTag")
        ELSE IF FromHex(encrypted.iv, CRYPTO_IV_LENGTH).len = 0
        THEN fail("Decryption failed: Invalid initialization vector")
        ELSE IF FromHex(encrypted.authTag, CRYPTO_TAG_LENGTH).len \notin GcmTagLengths
        THEN fail("Decryption failed: Invalid authentication tag length: "
                    \o ToString(FromHex(encrypted.authTag, CRYPTO_TAG_LENGTH).len))
        ELSE IF ~AuthTagVerifies(encrypted, key)
        THEN fail("Decryption failed: Data has been tampered with or wrong encryption key")
        ELSE [ok |-> TRUE, plaintext |-> encrypted.ciphertext.plain, error |-> ""]

\* ------------------------------------------------------------------------
\* lib/config.js: the credential store
\* ------------------------------------------------------------------------
\* the object JSON.parse yields for config.json; "" is a field that is not
\* there, createdAt is a time
EmptyConfig ==
    [ version |-> "", encrypted |-> NoEncrypted, createdAt |-> 0 - 1,
      machineId |-> "", paymentMode |-> "" ]

NoDir == [exists |-> FALSE, mode |-> 0]

NoConfigFile == [exists |-> FALSE, mode |-> 0, parseable |-> FALSE, json |-> EmptyConfig]

NoSaltFile == [exists |-> FALSE, mode |-> 0, len |-> 0, val |-> ""]

\* fs.writeFileSync(configPath, JSON.stringify(config), {mode}): the mode is
\* applied only when the file is created
WriteConfigFile(file, config) ==
    [ exists |-> TRUE,
      mode |-> IF file.exists THEN file.mode ELSE FILE_PERMISSIONS,
      parseable |-> TRUE,
      json |-> config ]

\* ensureConfigDir(): the directory afterwards
ensureConfigDir(dir) == [exists |-> TRUE, mode |-> DIR_PERMISSIONS]

\* getMachineId(): sha256 of hostname and username of the machine in use
getMachineId == "machine-1"

\* a getMachineKey that generates and writes a salt on every call, which the
\* salt-stability property must tell apart
getMachineKeyFresh(dir, salt, newSalt) ==
    LET s1 == [exists |-> TRUE, mode |-> FILE_PERMISSIONS,
               len |-> CRYPTO_SALT_LENGTH, val |-> newSalt]
    IN  [ ok |-> TRUE, key |-> deriveKey(getMachineId, s1.val), error |-> "",
          dir |-> ensureConfigDir(dir), salt |-> s1 ]

\* a getMachineKey that replaces a salt of the wrong length by a new one,
\* which the salt property must tell apart
getMachineKeyRegenerates(dir, salt, newSalt) ==
    LET d1 == ensureConfigDir(dir)
        s1 == IF salt.exists /\ salt.len = CRYPTO_SALT_LENGTH
              THEN [salt EXCEPT !.mode = FILE_PERMISSIONS]
              ELSE [exists |-> TRUE, mode |-> FILE_PERMISSIONS,
                    len |-> CRYPTO_SALT_LENGTH, val |-> newSalt]
    IN  [ ok |-> TRUE, key |-> deriveKey(getMachineId, s1.val), error |-> "",
          dir |-> d1, salt |-> s1 ]

\* getMachineKey(): [ok, key, error, dir, salt]; newSalt is what generateSalt
\* returns should the salt file not exist
getMachineKey(dir, salt, newSalt) ==
    LET d1 == ensureConfigDir(dir)
    IN  IF salt.exists /\ salt.len # CRYPTO_SALT_LENGTH
        THEN [ ok |-> FALSE, key |-> deriveKey("", ""),
               error |-> "Failed to get machine key: Invalid salt file (corrupted)",
               dir |-> d1, salt |-> salt ]
        ELSE LET s1 == IF salt.exists
                       THEN [salt EXCEPT !.mode = FILE_PERMISSIONS]
                       ELSE [exists |-> TRUE, mode |-> FILE_PERMISSIONS,
                             len |-> CRYPTO_SALT_LENGTH, val |-> newSalt]
             IN  [ ok |-> TRUE, key |-> deriveKey(getMachineId, s1.val), error |-> "",
                   dir |-> d1, salt |-> s1 ]

\* saveToken(authToken): [ok, error, dir, config, salt]
saveToken(dir, file, salt, token, iv, newSalt, time) ==
    IF token = ""
    THEN [ ok |-> FALSE, error |-> "Auth token must be a non-empty string",
           dir |-> dir, config |-> file, salt |-> salt ]
    ELSE LET k == getMachineKey(ensureConfigDir(dir), salt, newSalt)
         IN  IF ~k.ok
             THEN [ ok |-> FALSE, error |-> "Failed to save token: " \o k.error,
                    dir |-> k.dir, config |-> file, salt |-> k.salt ]
             ELSE [ ok |-> TRUE, error |-> "", dir |-> k.dir, salt |-> k.salt,
                    config |-> WriteConfigFile(file,
                        [ version |-> "2.0",
                          encrypted |-> encrypt(token, k.key, iv),
                          createdAt |-> time,
                          machineId |-> getMachineId,
                          paymentMode |-> "" ]) ]

\* loadToken(): [kind, token, error, warned, dir, salt] with kind "null",
\* "token" or "error"; getMachineKey on the way may create the directory
\* and the salt
loadToken(dir, file, salt, newSalt) ==
    LET none == [ kind |-> "null", token |-> "", error |-> "", warned |-> FALSE,
                  dir |-> dir, salt |-> salt ]
    IN  IF ~file.exists THEN none
        ELSE IF ~file.parseable
        THEN [none EXCEPT !.kind = "error",
                          !.error = "Config file is corrupted. Please re-authenticate."]
        ELSE IF ~file.json.encrypted.present \/ file.json.machineId = ""
        THEN [none EXCEPT !.kind = "error",
                          !.error = "Failed to load token: Config file is corrupted (missing required fields)"]
        ELSE LET w == file.json.machineId # getMachineId
                 k == getMachineKey(dir, salt, newSalt)
                 d == decrypt(file.json.encrypted, k.key)
             IN  IF ~k.ok
                 THEN [none EXCEPT !.kind = "error", !.warned = w, !.dir = k.dir,
                                   !.salt = k.salt,
                                   !.error = "Failed to load token: " \o k.error]
                 ELSE IF ~d.ok
                 THEN [none EXCEPT !.kind = "error", !.warned = w, !.dir = k.dir,
                                   !.salt = k.salt,
                                   !.error = IF Includes(d.error, "tampered")
                                             THEN "Config file has been tampered with. Please re-authenticate."
                                             ELSE "Failed to load token: " \o d.error]
                 ELSE [none EXCEPT !.kind = "token", !.token = d.plaintext,
                                   !.warned = w, !.dir = k.dir, !.salt = k.salt]

\* deleteToken(): the file afterwards (fs.unlinkSync)
deleteToken(file) == NoConfigFile

\* hasToken()
hasToken(file) == file.exists

\* Number.prototype.toString(8) of a file mode
RECURSIVE Octal(_)
Octal(n) == IF n < 8 THEN ToString(n) ELSE Octal(n \div 8) \o ToString(n % 8)

\* validateConfig(): [valid, issues]; JSON.parse throwing is caught and
\* replaces the issues collected so far
validateConfig(file) ==
    IF ~file.exists THEN [valid |-> TRUE, issues |-> <<>>]
    ELSE IF ~file.parseable
    THEN [ valid |-> FALSE,
           issues |-> <<"Config validation failed: Unexpected end of JSON input">> ]
    ELSE LET e == file.json.encrypted
             issues ==
                 (IF file.mode # FILE_PERMISSIONS
                  THEN <<"Insecure file permissions: " \o Octal(file.mode)
                           \o " (should be 600)">>
                  ELSE <<>>)
                 \o (IF file.json.version = "" THEN <<"Missing version field">> ELSE <<>>)
                 \o (IF \/ ~e.present
                        \/ \E field \in {"ciphertext", "iv", "authTag"} :
                              e[field].edit = "missing"
                     THEN <<"Missing or incomplete encrypted data">> ELSE <<>>)
                 \o (IF file.json.machineId = "" THEN <<"Missing machine ID">> ELSE <<>>)
         IN  [valid |-> issues = <<>>, issues |-> issues]

\* a repairConfig that recreates a record it finds corrupted, which the
\* read-only property must tell apart
repairConfigRecreates(file) ==
    IF ~file.exists THEN [repaired |-> FALSE, warned |-> FALSE, config |-> file]
    ELSE LET f1 == [file EXCEPT !.mode = FILE_PERMISSIONS]
             validation == validateConfig(f1)
         IN  IF ~validation.valid
             THEN [ repaired |-> TRUE, warned |-> TRUE,
                    config |-> [f1 EXCEPT !.parseable = TRUE, !.json = EmptyConfig] ]
             ELSE [ repaired |-> file.mode # FILE_PERMISSIONS, warned |-> FALSE,
                    config |-> f1 ]

\* repairConfig(): [repaired, warned, config]; the structure is validated
\* after the permissions were fixed, and a record with an issue naming
\* 'corrupted' or 'Missing' makes it answer false
repairConfig(file) ==
    IF ~file.exists THEN [repaired |-> FALSE, warned |-> FALSE, config |-> file]
    ELSE LET f1 == [file EXCEPT !.mode = FILE_PERMISSIONS]
             validation == validateConfig(f1)
             unrepairable ==
                 /\ ~validation.valid
                 /\ \E i \in 1 .. Len(validation.issues) :
                       \/ Includes(validation.issues[i], "corrupted")
                       \/ Includes(validation.issues[i], "Missing")
         IN  [ repaired |-> ~unrepairable /\ file.mode # FILE_PERMISSIONS,
               warned |-> unrepairable,
               config |-> f1 ]

\* ------------------------------------------------------------------------
\* lib/config.js: payment mode
\* ------------------------------------------------------------------------
\* lib/commands.js, the list behind mode 'universal': every git command.
\* The commands of the model stand for the 155 of the list.
commands == {"commit", "push", "status", "log", "diff"}

\* property names every JavaScript object inherits from Object.prototype
ObjectPrototypeKeys == {"constructor", "toString"}

\* PAYMENT_MODES[mode]
PAYMENT_MODES(mode) ==
    IF mode = "minimal" THEN [kind |-> "array", list |-> {"commit", "push"}]
    ELSE IF mode = "universal" THEN [kind |-> "array", list |-> commands]
    ELSE IF mode \in ObjectPrototypeKeys THEN [kind |-> "function", list |-> {}]
    ELSE [kind |-> "undefined", list |-> {}]

\* getPaymentMode()
getPaymentMode(file) ==
    IF ~file.exists THEN "minimal"
    ELSE IF ~file.parseable THEN "minimal"
    ELSE IF file.json.paymentMode # "" THEN file.json.paymentMode
    ELSE "minimal"

\* a setPaymentMode that writes a configuration holding the mode alone, which
\* the mode-switch property must tell apart
setPaymentModeAlone(dir, file, mode) ==
    IF PAYMENT_MODES(mode).kind = "undefined"
    THEN [ ok |-> FALSE,
           error |-> "Invalid payment mode: " \o mode \o ". Use 'minimal' or 'universal'",
           dir |-> dir, config |-> file ]
    ELSE [ ok |-> TRUE, error |-> "", dir |-> ensureConfigDir(dir),
           config |-> WriteConfigFile(file, [EmptyConfig EXCEPT !.paymentMode = mode]) ]

\* setPaymentMode(mode): [ok, error, dir, config]
setPaymentMode(dir, file, mode) ==
    IF PAYMENT_MODES(mode).kind = "undefined"
    THEN [ ok |-> FALSE,
           error |-> "Invalid payment mode: " \o mode \o ". Use 'minimal' or 'universal'",
           dir |-> dir, config |-> file ]
    ELSE LET config == IF file.exists /\ file.parseable THEN file.json ELSE EmptyConfig
         IN  [ ok |-> TRUE, error |-> "", dir |-> ensureConfigDir(dir),
               config |-> WriteConfigFile(file, [config EXCEPT !.paymentMode = mode]) ]

\* getPaymentGatedCommands()
getPaymentGatedCommands(file) == PAYMENT_MODES(getPaymentMode(file))

\* lib/command-router.js isPaymentGated(command): [threw, gated]; .includes
\* of something that is no array raises a TypeError
isPaymentGated(file, command) ==
    LET gatedCommands == getPaymentGatedCommands(file)
    IN  IF gatedCommands.kind = "array"
        THEN [threw |-> FALSE, gated |-> command \in gatedCommands.list]
        ELSE [threw |-> TRUE, gated |-> FALSE]

\* a dispatcher that authenticates for every command, which the pass-through
\* property must tell apart
needsAuthenticationAlways(file, command) == [threw |-> FALSE, gated |-> TRUE]

\* needsAuthentication(command)
needsAuthentication(file, command) == isPaymentGated(file, command)

\* ------------------------------------------------------------------------
\* lib/token-manager.js
\* ------------------------------------------------------------------------
NoEntry == [present |-> FALSE, valid |-> FALSE, timestamp |-> 0]

\* new Map()
EmptyCache == [t \in Tokens |-> NoEntry]

\* a cache whose entries expire one millisecond early, which the cache
\* property must tell apart
getCachedValidationEarly(cache, token, time) ==
    IF ~cache[token].present
    THEN [hit |-> FALSE, valid |-> FALSE, cache |-> cache]
    ELSE IF time - cache[token].timestamp >= TOKEN_VALIDATION_CACHE_TTL_MS
    THEN [hit |-> FALSE, valid |-> FALSE, cache |-> [cache EXCEPT ![token] = NoEntry]]
    ELSE [hit |-> TRUE, valid |-> cache[token].valid, cache |-> cache]

\* a cache in which a hit renews the entry, which the TTL property must tell
\* apart
getCachedValidationSliding(cache, token, time) ==
    IF ~cache[token].present
    THEN [hit |-> FALSE, valid |-> FALSE, cache |-> cache]
    ELSE IF time - cache[token].timestamp > TOKEN_VALIDATION_CACHE_TTL_MS
    THEN [hit |-> FALSE, valid |-> FALSE, cache |-> [cache EXCEPT ![token] = NoEntry]]
    ELSE [hit |-> TRUE, valid |-> cache[token].valid,
          cache |-> [cache EXCEPT ![token].timestamp = time]]

\* getCachedValidation(authToken) at time `time`: [hit, valid, cache]; an
\* entry older than the TTL is deleted and reported as no entry
getCachedValidation(cache, token, time) ==
    IF ~cache[token].present
    THEN [hit |-> FALSE, valid |-> FALSE, cache |-> cache]
    ELSE IF time - cache[token].timestamp > TOKEN_VALIDATION_CACHE_TTL_MS
    THEN [hit |-> FALSE, valid |-> FALSE, cache |-> [cache EXCEPT ![token] = NoEntry]]
    ELSE [hit |-> TRUE, valid |-> cache[token].valid, cache |-> cache]

\* setCachedValidation(authToken, valid) at time `time`
setCachedValidation(cache, token, valid, time) ==
    [cache EXCEPT ![token] = [present |-> TRUE, valid |-> valid, timestamp |-> time]]

\* a clearValidationCache that clears nothing, which the invalidation
\* property must tell apart
clearValidationCacheKept(cache) == cache

\* clearValidationCache()
clearValidationCache(cache) == EmptyCache

NoTv == [status |-> "none", caller |-> "none", token |-> "", result |-> FALSE]

\* isTokenValid(authToken) up to its first await: [tv, cache, log]
TvStart(cache, l, token, time, caller) ==
    LET t0 == [NoTv EXCEPT !.caller = caller, !.token = token]
        l0 == [l EXCEPT !.validatorCalls = @ + 1]
    IN  IF token = ""
        THEN [ tv |-> [t0 EXCEPT !.status = "done", !.result = FALSE],
               cache |-> cache, log |-> l0 ]
        ELSE LET c == getCachedValidation(cache, token, time)
             IN  IF c.hit
                 THEN [ tv |-> [t0 EXCEPT !.status = "done", !.result = c.valid],
                        cache |-> c.cache,
                        log |-> [l0 EXCEPT !.cacheHits = @ + 1] ]
                 ELSE [ tv |-> [t0 EXCEPT !.status = "lookup"],
                        cache |-> c.cache,
                        log |-> [l0 EXCEPT !.profileLookups = @ + 1] ]

\* the log once clearValidationCache has been called
LogCleared(l) == [l EXCEPT !.verdictAt = [t \in Tokens |-> 0 - 1]]

\* what account.profile.getCurrentProfile() can settle with
ProfileOutcomes == {"handle", "no-handle", "no-profile", "error"}

\* a validator that accepts any profile, with or without a handle, which the
\* fail-closed property must tell apart
ProfileVerdictAnyProfile(outcome) == outcome \in {"handle", "no-handle"}

\* the verdict isTokenValid draws from the provider's answer
ProfileVerdict(outcome) == outcome = "handle"

\* await account.profile.getCurrentProfile() settles: the verdict is cached
\* with the time of the write, and returned
TvLookupSettled ==
    /\ tv.status = "lookup"
    /\ \E outcome \in ProfileOutcomes :
         /\ validationCache' =
                setCachedValidation(validationCache, tv.token, ProfileVerdict(outcome), now)
         /\ tv' = [tv EXCEPT !.status = "done", !.result = ProfileVerdict(outcome)]
         /\ log' = [log EXCEPT !.verdictAt[tv.token] = now,
                               !.handle[tv.token] = (outcome = "handle")]
    /\ UNCHANGED <<diskVars, now, pc, args, envToken, authToken, exitCode, pay, oauth>>

\* ------------------------------------------------------------------------
\* lib/payment.js: executePayment(amount, note, authToken, options)
\* ------------------------------------------------------------------------
\* for (attempt ...; attempt < maxRetries; ...) { await account.wallet.pay(...)
\* the loop head at `attempt`: issues the next pay call, or leaves the loop
\* with lastError still undefined, which makes enhancePaymentError raise
PayLoopHead(p, l, attempt) ==
    IF attempt < p.maxRetries
    THEN [ pay |-> [p EXCEPT !.status = "attempt", !.attempt = attempt],
           log |-> [l EXCEPT !.payAttempts = @ + 1] ]
    ELSE [ pay |-> [p EXCEPT !.status = "thrown", !.attempt = attempt,
                             !.thrown = IF p.lastError = ""
                                        THEN TypeErrorUndefinedMessage
                                        ELSE enhancePaymentError(p.lastError)],
           log |-> l ]

\* guards that let an amount of 0 through, which the precondition property
\* must tell apart
PaymentPreconditionErrorLax(amount, token) ==
    IF token = "" THEN "Auth token is required for payment"
    ELSE IF amount < 0 THEN "Payment amount must be greater than 0"
    ELSE ""

\* the two guards at the top of executePayment: the message of the error
\* raised, "" when both pass (!authToken; !amount || amount <= 0)
PaymentPreconditionError(amount, token) ==
    IF token = "" THEN "Auth token is required for payment"
    ELSE IF amount = 0 \/ amount <= 0 THEN "Payment amount must be greater than 0"
    ELSE ""

\* the call up to its first await
PayStart(l, amount, note, token, maxRetries, checkBalance, caller) ==
    LET p0 == [NoPay EXCEPT !.caller = caller, !.amount = amount, !.note = note,
                            !.description = IF note = "" THEN "bgit payment" ELSE note,
                            !.token = token, !.maxRetries = maxRetries,
                            !.checkBalance = checkBalance]
        l0 == [l EXCEPT !.payCalls = @ + 1]
    IN  IF PaymentPreconditionError(amount, token) # ""
        THEN [ pay |-> [p0 EXCEPT !.status = "thrown",
                                  !.thrown = PaymentPreconditionError(amount, token)],
               log |-> l0 ]
        ELSE LET l1 == [l0 EXCEPT !.accountLookups = @ + 1]
             IN  IF checkBalance
                 THEN [ pay |-> [p0 EXCEPT !.status = "balance"],
                        log |-> [l1 EXCEPT !.balanceQueries = @ + 1] ]
                 ELSE PayLoopHead(p0, l1, 0)

\* a balance check whose failure fails the payment, which the warning
\* property must tell apart
PayBalanceSettledStrict ==
    /\ pay.status = "balance"
    /\ \E outcome \in {"error", "low", "enough"} :
         LET p1 == [pay EXCEPT !.balance = outcome]
             r  == IF outcome = "enough" THEN PayLoopHead(p1, log, 0)
                   ELSE [ pay |-> [p1 EXCEPT !.status = "thrown",
                                             !.thrown = "Could not check balance"],
                          log |-> log ]
         IN  /\ pay' = r.pay
             /\ log' = r.log
    /\ UNCHANGED <<diskVars, validationCache, now, pc, args, envToken, authToken,
                   exitCode, tv, oauth>>

\* await account.wallet.getSpendableBalance() settles; a rejected query and a
\* balance below the amount both end in the inner catch, which only warns
PayBalanceSettled ==
    /\ pay.status = "balance"
    /\ \E outcome \in {"error", "low", "enough"} :
         LET l1 == IF outcome = "enough" THEN log
                   ELSE [log EXCEPT !.warnings = @ + 1]
             r  == PayLoopHead([pay EXCEPT !.balance = outcome], l1, 0)
         IN  /\ pay' = r.pay
             /\ log' = r.log
    /\ UNCHANGED <<diskVars, validationCache, now, pc, args, envToken, authToken,
                   exitCode, tv, oauth>>

\* await account.wallet.pay(paymentParameters) resolves
PayAttemptResolved ==
    /\ pay.status = "attempt"
    /\ pay' = [pay EXCEPT !.status = "returned"]
    /\ log' = [log EXCEPT !.paySuccesses = @ + 1]
    /\ UNCHANGED <<diskVars, validationCache, now, pc, args, envToken, authToken,
                   exitCode, tv, oauth>>

\* a catch block that counts the attempts one short, which the attempt
\* budget must tell apart
PayCatchOneMore(p, l, message) ==
    LET l1 == [l EXCEPT !.payFailures = @ + 1]
    IN  IF ~isRetryableError(message) \/ p.attempt = p.maxRetries
        THEN [ pay |-> [p EXCEPT !.status = "thrown", !.lastError = message,
                                 !.thrown = enhancePaymentError(message)],
               log |-> l1 ]
        ELSE [ pay |-> [p EXCEPT !.status = "attempt", !.lastError = message,
                                 !.attempt = @ + 1],
               log |-> [l1 EXCEPT !.payAttempts = @ + 1] ]

\* the catch block of one attempt, for an error with text `message`
PayCatch(p, l, message) ==
    LET l1 == [l EXCEPT !.payFailures = @ + 1]
    IN  IF ~isRetryableError(message) \/ p.attempt = p.maxRetries - 1
        THEN [ pay |-> [p EXCEPT !.status = "thrown", !.lastError = message,
                                 !.thrown = enhancePaymentError(message)],
               log |-> l1 ]
        ELSE [ pay |-> [p EXCEPT !.status = "sleep", !.lastError = message],
               log |-> [l1 EXCEPT !.sleeps = Append(@, getBackoffDelay(p.attempt))] ]

\* await account.wallet.pay(paymentParameters) rejects
PayAttemptRejected ==
    /\ pay.status = "attempt"
    /\ \E message \in ProviderErrors :
         LET r == PayCatch(pay, log, message)
         IN  /\ pay' = r.pay
             /\ log' = r.log
    /\ UNCHANGED <<diskVars, validationCache, now, pc, args, envToken, authToken,
                   exitCode, tv, oauth>>

\* await sleep(delay) is over: attempt++ and the loop head again
PaySleepDone ==
    /\ pay.status = "sleep"
    /\ LET r == PayLoopHead(pay, log, pay.attempt + 1)
       IN  /\ pay' = r.pay
           /\ log' = r.log
    /\ UNCHANGED <<diskVars, validationCache, now, pc, args, envToken, authToken,
                   exitCode, tv, oauth>>

PaymentStep ==
    \/ PayBalanceSettled
    \/ PayAttemptResolved
    \/ PayAttemptRejected
    \/ PaySleepDone

PaySettled == pay.status \in {"none", "returned", "thrown"}

\* ------------------------------------------------------------------------
\* Initial state: a fresh installation, and a process that has not started
\* ------------------------------------------------------------------------
NoOauth ==
    [ caller |-> "none",         \* who called initiateOAuthFlow
      listener |-> "none",       \* "none", "binding", "listening", "failed", "closed"
      startPort |-> 0,           \* the arguments of startOAuthServer
      endPort |-> 0,
      port |-> 0,                \* the port being tried, or bound
      tried |-> <<>>,            \* how srv.listen ended, port after port
      armedAt |-> 0,             \* when the timeout was armed
      tokenPromise |-> "pending",\* "pending", "resolved", "rejected"
      token |-> "",              \* what tokenPromise resolved with
      error |-> "",              \* what startOAuthServer rejects with
      browser |-> "none",        \* "none", "opened", "failed"
      server |-> FALSE,          \* initiateOAuthFlow's `server` is non-null
      result |-> "" ]            \* the error the flow is about to raise

InitDisk ==
    /\ configDir = NoDir
    /\ configFile = NoConfigFile
    /\ saltFile = NoSaltFile

InitProcess ==
    /\ validationCache = EmptyCache
    /\ now = 0
    /\ args = <<>>
    /\ envToken = ""
    /\ authToken = ""
    /\ exitCode = 0
    /\ pay = NoPay
    /\ tv = NoTv
    /\ oauth = NoOauth
    /\ log = EmptyLog

\* ------------------------------------------------------------------------
\* The process as a record, so that the code's functions are functions of it
\* ------------------------------------------------------------------------
Cur ==
    [ pc |-> pc, authToken |-> authToken, exitCode |-> exitCode, pay |-> pay,
      tv |-> tv, oauth |-> oauth, log |-> log, cache |-> validationCache,
      dir |-> configDir, file |-> configFile, salt |-> saltFile ]

Become(r) ==
    /\ pc' = r.pc
    /\ authToken' = r.authToken
    /\ exitCode' = r.exitCode
    /\ pay' = r.pay
    /\ tv' = r.tv
    /\ oauth' = r.oauth
    /\ log' = r.log
    /\ validationCache' = r.cache
    /\ configDir' = r.dir
    /\ configFile' = r.file
    /\ saltFile' = r.salt

\* JavaScript null, where a number is expected
JsNull == 0 - 1

\* process.exit(code): null leaves the exit code at its default
ProcessExit(r, code) ==
    [r EXCEPT !.pc = "exited", !.exitCode = IF code = JsNull THEN 0 ELSE code]

\* main's catch block: print the error, process.exit(1)
MainCatch(r, message) == ProcessExit([r EXCEPT !.log.error = message], 1)

\* ------------------------------------------------------------------------
\* lib/payment.js: notes
\* ------------------------------------------------------------------------
formatCommitNote(commitHash) == "Commit: " \o Substring0(commitHash, 8)

\* a push note that is not cut, which the note limit must tell apart
formatPushNoteWhole(remote, branch) == "Push: " \o branch

formatPushNote(remote, branch) == Substring0("Push: " \o branch, 25)

\* ------------------------------------------------------------------------
\* lib/command-router.js
\* ------------------------------------------------------------------------
\* how the git child process can end
GitOutcomes ==
    { [kind |-> "exit", code |-> 0], [kind |-> "exit", code |-> 1],
      [kind |-> "exit", code |-> 128],
      [kind |-> "signal", code |-> 0], [kind |-> "spawn-error", code |-> 0] }

\* an executeGitCommand that reports every failure of git as 1, which the
\* exit-code property must tell apart
executeGitCommandMasked(outcome) ==
    IF outcome.kind = "exit" /\ outcome.code = 0 THEN 0 ELSE 1

\* what the promise of executeGitCommand resolves with: the code of 'close'
\* (null when a signal ended git), 1 when 'error' is emitted
executeGitCommand(outcome) ==
    IF outcome.kind = "exit" THEN outcome.code
    ELSE IF outcome.kind = "spawn-error" THEN 1
    ELSE JsNull

\* spawn('git', args, { stdio: 'inherit' })
SpawnGit(r, next) == [r EXCEPT !.pc = next, !.log.gitRuns = @ + 1]

\* executePush(args, authToken) up to its first await
executePush(r, a) ==
    LET remote == IF Len(a) > 1 THEN a[2] ELSE "origin"
        branch == IF Len(a) > 2 THEN a[3] ELSE "main"
        p == PayStart(r.log, PAYMENT_AMOUNT_PUSH, formatPushNote(remote, branch),
                      r.authToken, PAYMENT_RETRY_MAX_ATTEMPTS, FALSE, "push")
    IN  [r EXCEPT !.pc = "push_pay", !.pay = p.pay, !.log = p.log]

\* routeCommand(args, authToken) up to its first await
routeCommand(r, a) ==
    IF Len(a) = 0 THEN ProcessExit(r, 1)
    ELSE IF a[1] = "commit" THEN SpawnGit(r, "commit_git")
    ELSE IF a[1] = "push" THEN executePush(r, a)
    ELSE SpawnGit(r, "pass_git")

\* ------------------------------------------------------------------------
\* lib/auth.js
\* the error of a port loop that bound nothing
AllPortsInUse(startPort, endPort) ==
    "All ports (" \o ToString(startPort) \o "-" \o ToString(endPort)
        \o ") are in use. Please free up a port and try again."

\* startOAuthServer(startPort, endPort) up to its first await: the token
\* promise is created, the timeout armed, and srv.listen called on the first
\* port of the range; with an empty range the loop is passed over
startOAuthServer(startPort, endPort, time) ==
    LET o == [NoOauth EXCEPT !.startPort = startPort, !.endPort = endPort,
                             !.port = startPort, !.armedAt = time]
    IN  IF startPort <= endPort
        THEN [o EXCEPT !.listener = "binding"]
        ELSE [o EXCEPT !.listener = "failed",
                       !.error = AllPortsInUse(startPort, endPort)]

\* ------------------------------------------------------------------------
\* initiateOAuthFlow() up to its first await: startOAuthServer() has created
\* the token promise, armed the timeout and asked to listen on the first
\* port; the flow then awaits open(redirectUrl)
initiateOAuthFlow(r, caller) ==
    [r EXCEPT !.pc = "oauth_open",
              !.log.oauthFlows = @ + 1,
              !.oauth = [startOAuthServer(OAUTH_PORT_START, OAUTH_PORT_END, now)
                           EXCEPT !.caller = caller]]

\* ensureAuthenticated returned `token` to main, which calls routeCommand
AuthReturned(r, token, a) == routeCommand([r EXCEPT !.authToken = token], a)

\* a failure of ensureAuthenticated that is logged and passed over, the
\* command routed all the same, which the gating property must tell apart
AuthFailedSwallowed(r, message) ==
    routeCommand([r EXCEPT !.log.error = "Authentication failed: " \o message], args)

\* ensureAuthenticated's catch: rethrown to main's catch
AuthFailed(r, message) == MainCatch(r, "Authentication failed: " \o message)

\* an ensureAuthenticated that has no eye for the environment, which the
\* injected-token property must tell apart
ensureAuthenticatedStoreOnly(r, env, a, newSalt) ==
    LET r1 == [r EXCEPT !.log.authCalls = @ + 1, !.log.storeReads = @ + 1]
    IN  IF hasToken(r1.file)
        THEN LET lt == loadToken(r1.dir, r1.file, r1.salt, newSalt)
                 r2 == [r1 EXCEPT !.dir = lt.dir, !.salt = lt.salt,
                                  !.log.storeReads = @ + 1]
             IN  IF lt.kind = "error" THEN AuthFailed(r2, lt.error)
                 ELSE IF lt.kind = "token" /\ lt.token # ""
                 THEN LET v == TvStart(r2.cache, r2.log, lt.token, now, "ea")
                      IN  [r2 EXCEPT !.pc = "ea_validate", !.tv = v.tv,
                                     !.cache = v.cache, !.log = v.log]
                 ELSE initiateOAuthFlow(r2, "ea")
        ELSE initiateOAuthFlow(r1, "ea")

\* ensureAuthenticated() up to its first await
ensureAuthenticated(r, env, a, newSalt) ==
    LET r0 == [r EXCEPT !.log.authCalls = @ + 1]
        r1 == [r0 EXCEPT !.log.storeReads = @ + 1]
    IN  IF env # "" THEN AuthReturned(r0, env, a)
        ELSE IF hasToken(r1.file)
        THEN LET lt == loadToken(r1.dir, r1.file, r1.salt, newSalt)
                 r2 == [r1 EXCEPT !.dir = lt.dir, !.salt = lt.salt,
                                  !.log.storeReads = @ + 1,
                                  !.log.warnings = IF lt.warned THEN @ + 1 ELSE @]
             IN  IF lt.kind = "error" THEN AuthFailed(r2, lt.error)
                 ELSE IF lt.kind = "token" /\ lt.token # ""
                 THEN LET v == TvStart(r2.cache, r2.log, lt.token, now, "ea")
                      IN  [r2 EXCEPT !.pc = "ea_validate", !.tv = v.tv,
                                     !.cache = v.cache, !.log = v.log]
                 ELSE initiateOAuthFlow(r2, "ea")
        ELSE initiateOAuthFlow(r1, "ea")

\* initiateOAuthFlow has returned `token` (message = "") or raised `message`
OAuthFlowDone(r, token, message, a) ==
    IF r.oauth.caller = "ea"
    THEN IF message = "" THEN AuthReturned(r, token, a) ELSE AuthFailed(r, message)
    ELSE \* loginCommand
         IF message = "" THEN ProcessExit(r, 0)
         ELSE ProcessExit([r EXCEPT !.log.error = "Login failed: " \o message], 1)

\* a loginCommand that starts the flow with the stored token left in place,
\* which the login property must tell apart
loginCommandKeeps(r) ==
    initiateOAuthFlow([r EXCEPT !.log.storeReads = @ + 1], "login")

\* loginCommand() up to its first await
loginCommand(r) ==
    LET r0 == [r EXCEPT !.log.storeReads = @ + 1]
        r1 == IF hasToken(r0.file)
              THEN [r0 EXCEPT !.file = deleteToken(r0.file),
                              !.cache = clearValidationCache(r0.cache),
                              !.log = LogCleared(r0.log)]
              ELSE r0
    IN  initiateOAuthFlow(r1, "login")

\* logoutCommand(), and main's process.exit(0) after it
logoutCommand(r) ==
    LET r0 == [r EXCEPT !.log.storeReads = @ + 1]
    IN  IF ~hasToken(r0.file) THEN ProcessExit(r0, 0)
        ELSE ProcessExit([r0 EXCEPT !.file = deleteToken(r0.file),
                                    !.cache = clearValidationCache(r0.cache),
                                    !.log = LogCleared(r0.log)], 0)

\* ------------------------------------------------------------------------
\* index.js: main()
\* ------------------------------------------------------------------------
\* payment modes a user may type
ModeInputs == {"minimal", "universal", "bogus", "constructor"}

\* command lines
ArgInputs ==
    { <<>>, <<"commit">>, <<"push">>,
      <<"push", "upstream", "feature/payment-gateway-retry-logic">>,
      <<"status">>, <<"diff">>,
      <<"auth", "login">>, <<"auth", "logout">>, <<"auth", "whoami">>,
      <<"config", "payment-mode">>, <<"config", "list">> }
    \cup { <<"config", "payment-mode", m>> : m \in ModeInputs }

\* a process as it starts: nothing in memory
NewProcess(r) ==
    [r EXCEPT !.pc = "main", !.authToken = "", !.exitCode = 0, !.pay = NoPay,
              !.tv = NoTv, !.oauth = NoOauth, !.cache = EmptyCache,
              !.log = [EmptyLog EXCEPT !.mode = getPaymentMode(r.file)]]

\* main() up to its first await
main(r, a, env, newSalt) ==
    IF Len(a) = 0 THEN ProcessExit(r, 0)
    ELSE IF a[1] = "auth"
    THEN IF Len(a) > 1 /\ a[2] = "login" THEN loginCommand(r)
         ELSE IF Len(a) > 1 /\ a[2] = "logout" THEN logoutCommand(r)
         ELSE ProcessExit(r, 1)
    ELSE IF a[1] = "config"
    THEN IF Len(a) > 1 /\ a[2] = "payment-mode"
         THEN IF Len(a) < 3 THEN ProcessExit(r, 0)
              ELSE LET m == setPaymentMode(r.dir, r.file, a[3])
                   IN  IF m.ok
                       THEN ProcessExit([r EXCEPT !.dir = m.dir, !.file = m.config], 0)
                       ELSE ProcessExit([r EXCEPT !.log.error = m.error], 1)
         ELSE ProcessExit(r, 1)
    ELSE LET n == needsAuthentication(r.file, a[1])
         IN  IF n.threw THEN MainCatch(r, "gatedCommands.includes is not a function")
             ELSE IF n.gated THEN ensureAuthenticated(r, env, a, newSalt)
             ELSE routeCommand(r, a)

\* the user runs bgit: a new process, with its command line and environment
Main ==
    /\ pc \in {"start", "exited"}
    /\ \E a \in ArgInputs, env \in Tokens \cup {""}, newSalt \in Salts :
         /\ args' = a
         /\ envToken' = env
         /\ Become(main(NewProcess(Cur), a, env, newSalt))
    /\ UNCHANGED now

\* ensureAuthenticated: await isTokenValid(authToken) is over
EnsureAuthenticatedValidated ==
    /\ pc = "ea_validate"
    /\ tv.status = "done"
    /\ Become(IF tv.result
              THEN AuthReturned(Cur, tv.token, args)
              ELSE initiateOAuthFlow(Cur, "ea"))
    /\ UNCHANGED <<now, args, envToken>>

\* an executePush that pushes whatever the payment did, which the gatekeeper
\* property must tell apart
PushPaymentSettledUngated ==
    /\ pc = "push_pay"
    /\ pay.status \in {"returned", "thrown"}
    /\ Become(SpawnGit(Cur, "push_git"))
    /\ UNCHANGED <<now, args, envToken>>

\* executePush: await executePayment(...) is over
PushPaymentSettled ==
    /\ pc = "push_pay"
    /\ pay.status \in {"returned", "thrown"}
    /\ Become(IF pay.status = "thrown"
              THEN ProcessExit(Cur, 1)
              ELSE SpawnGit(Cur, "push_git"))
    /\ UNCHANGED <<now, args, envToken>>

\* commit hashes `git rev-parse HEAD` can print; "" when it fails
CommitHashes == {"", "9fceb02d0ae598e95dc970b74767f19372d61af8"}

\* an executeCommit that goes on to the payment after a failed commit, which
\* the failed-commit property must tell apart
CommitAfterGitAnyCode(r, code, commitHash) ==
    IF commitHash = "" THEN ProcessExit(r, code)
    ELSE LET p == PayStart(r.log, PAYMENT_AMOUNT_COMMIT, formatCommitNote(commitHash),
                           r.authToken, PAYMENT_RETRY_MAX_ATTEMPTS, FALSE, "commit")
         IN  [r EXCEPT !.pc = "commit_pay", !.pay = p.pay, !.log = p.log]

\* executeCommit once executeGitCommand has resolved with `code`
CommitAfterGit(r, code, commitHash) ==
    IF code # 0 THEN ProcessExit(r, code)
    ELSE IF commitHash = "" THEN ProcessExit(r, 0)
    ELSE LET p == PayStart(r.log, PAYMENT_AMOUNT_COMMIT, formatCommitNote(commitHash),
                           r.authToken, PAYMENT_RETRY_MAX_ATTEMPTS, FALSE, "commit")
         IN  [r EXCEPT !.pc = "commit_pay", !.pay = p.pay, !.log = p.log]

\* the git child process is over: executeGitCommand resolves, and its caller
\* (executeCommit, executePush or routeCommand) goes on
GitClosed ==
    /\ pc \in {"commit_git", "push_git", "pass_git"}
    /\ \E outcome \in GitOutcomes, commitHash \in CommitHashes :
         LET code == executeGitCommand(outcome)
             r == [Cur EXCEPT !.log.gitCode = code, !.log.git = outcome]
         IN  Become(
               IF pc = "pass_git" THEN ProcessExit(r, code)
               ELSE IF pc = "push_git"
               THEN ProcessExit([r EXCEPT !.log.warnings =
                                     IF code = 0 THEN @ ELSE @ + 1], code)
               ELSE CommitAfterGit(r, code, commitHash))
    /\ UNCHANGED <<now, args, envToken>>

\* an executeCommit that fails when the payment does, which the soft-fail
\* property must tell apart
CommitPaymentSettledHard ==
    /\ pc = "commit_pay"
    /\ pay.status \in {"returned", "thrown"}
    /\ Become(IF pay.status = "thrown" THEN MainCatch(Cur, pay.thrown)
              ELSE ProcessExit(Cur, 0))
    /\ UNCHANGED <<now, args, envToken>>

\* executeCommit: await softFailPayment(...) is over; a payment that raised
\* is only warned about
CommitPaymentSettled ==
    /\ pc = "commit_pay"
    /\ pay.status \in {"returned", "thrown"}
    /\ Become(ProcessExit([Cur EXCEPT !.log.warnings =
                              IF pay.status = "thrown" THEN @ + 1 ELSE @], 0))
    /\ UNCHANGED <<now, args, envToken>>

\* ------------------------------------------------------------------------
\* lib/oauth-server.js and the rest of initiateOAuthFlow
\* ------------------------------------------------------------------------
\* how srv.listen(port) can end: the callback, or 'error' with a code
ListenOutcomes == {"listening", "EADDRINUSE", "EACCES"}

\* a port loop that goes on to the next port whatever the error, which the
\* port property must tell apart
StartOAuthServerListenSkipAny(o, outcome) ==
    LET o1 == [o EXCEPT !.tried = Append(@, outcome)]
    IN  IF outcome = "listening" THEN [o1 EXCEPT !.listener = "listening"]
        ELSE IF o.port + 1 <= o.endPort
        THEN [o1 EXCEPT !.port = @ + 1]
        ELSE [o1 EXCEPT !.listener = "failed",
                        !.error = AllPortsInUse(o.startPort, o.endPort)]

\* one turn of the port loop of startOAuthServer
StartOAuthServerListen(o, outcome) ==
    LET o1 == [o EXCEPT !.tried = Append(@, outcome)]
    IN  IF outcome = "listening" THEN [o1 EXCEPT !.listener = "listening"]
        ELSE IF outcome = "EADDRINUSE"
        THEN IF o.port + 1 <= o.endPort
             THEN [o1 EXCEPT !.port = @ + 1]
             ELSE [o1 EXCEPT !.listener = "failed",
                             !.error = AllPortsInUse(o.startPort, o.endPort)]
        ELSE [o1 EXCEPT !.listener = "failed",
                        !.error = "Failed to start OAuth server: " \o outcome]

\* srv.listen settles
OAuthListenSettled ==
    /\ oauth.listener = "binding"
    /\ \E outcome \in ListenOutcomes : oauth' = StartOAuthServerListen(oauth, outcome)
    /\ UNCHANGED <<diskVars, validationCache, now, pc, args, envToken, authToken,
                   exitCode, pay, tv, log>>

\* await open(redirectUrl) is over; a browser that cannot be opened is not
\* an error
OAuthBrowserOpen ==
    /\ pc = "oauth_open"
    /\ \E b \in {"opened", "failed"} : oauth' = [oauth EXCEPT !.browser = b]
    /\ pc' = "oauth_wait"
    /\ UNCHANGED <<diskVars, validationCache, now, args, envToken, authToken,
                   exitCode, pay, tv, log>>

\* GET /callback?authToken=...: the token promise is resolved with the
\* token, or rejected when the parameter is missing
OAuthCallback ==
    /\ pc \in {"oauth_open", "oauth_wait"}
    /\ oauth.listener = "listening"
    /\ oauth.tokenPromise = "pending"
    /\ \E q \in Tokens \cup {""} :
         oauth' = IF q # ""
                  THEN [oauth EXCEPT !.tokenPromise = "resolved", !.token = q]
                  ELSE [oauth EXCEPT !.tokenPromise = "rejected",
                                     !.error = "No auth token received in callback"]
    /\ UNCHANGED <<diskVars, validationCache, now, pc, args, envToken, authToken,
                   exitCode, pay, tv, log>>

\* GET /error?message=...
OAuthErrorRoute ==
    /\ pc \in {"oauth_open", "oauth_wait"}
    /\ oauth.listener = "listening"
    /\ oauth.tokenPromise = "pending"
    /\ oauth' = [oauth EXCEPT !.tokenPromise = "rejected",
                              !.error = "OAuth error: access denied"]
    /\ UNCHANGED <<diskVars, validationCache, now, pc, args, envToken, authToken,
                   exitCode, pay, tv, log>>

\* a timer that was never armed, which the liveness property must tell apart
OAuthTimeoutUnarmed ==
    /\ FALSE
    /\ UNCHANGED vars

\* the timer armed when startOAuthServer was called fires
OAuthTimeout ==
    /\ pc \in {"oauth_open", "oauth_wait"}
    /\ oauth.listener \in {"binding", "listening"}
    /\ oauth.tokenPromise = "pending"
    /\ oauth' = [oauth EXCEPT !.tokenPromise = "rejected",
                              !.error = "OAuth timeout: No authorization received within 5 minutes"]
    /\ UNCHANGED <<diskVars, validationCache, now, pc, args, envToken, authToken,
                   exitCode, pay, tv, log>>

\* the promise startOAuthServer returned: rejected when no port could be
\* bound; once listening, it follows the token promise
ServerPromise(o) ==
    IF o.listener = "failed" THEN "rejected"
    ELSE IF o.listener = "listening" THEN o.tokenPromise
    ELSE "pending"

\* the catch block of initiateOAuthFlow: the server is stopped only when the
\* flow holds it, and the error is raised again
OAuthFlowCatch(r, message, a) ==
    IF r.oauth.server
    THEN [r EXCEPT !.pc = "oauth_stop", !.oauth.result = message,
                   !.log.stopCalls = @ + 1]
    ELSE OAuthFlowDone(r, "", message, a)

\* initiateOAuthFlow: await serverPromise is over
OAuthServerPromiseSettled ==
    /\ pc = "oauth_wait"
    /\ ServerPromise(oauth) # "pending"
    /\ Become(IF ServerPromise(oauth) = "resolved"
              THEN LET v == TvStart(validationCache, log, oauth.token, now, "oauth")
                   IN  [Cur EXCEPT !.pc = "oauth_validate", !.oauth.server = TRUE,
                                   !.tv = v.tv, !.cache = v.cache, !.log = v.log]
              ELSE OAuthFlowCatch(Cur, oauth.error, args))
    /\ UNCHANGED <<now, args, envToken>>

\* a flow that saves the captured token before it looks at the verdict,
\* which the hard-failure property must tell apart
OAuthTokenValidatedSaveFirst ==
    /\ pc = "oauth_validate"
    /\ tv.status = "done"
    /\ \E iv \in IVs, newSalt \in Salts :
         LET sv == saveToken(configDir, configFile, saltFile, oauth.token, iv, newSalt, now)
             r  == [Cur EXCEPT !.dir = sv.dir, !.file = sv.config, !.salt = sv.salt]
         IN  Become(
               IF ~sv.ok THEN OAuthFlowCatch(r, sv.error, args)
               ELSE IF ~tv.result
               THEN OAuthFlowCatch(r, "Received invalid token from HandCash", args)
               ELSE [r EXCEPT !.pc = "oauth_stop",
                              !.cache = clearValidationCache(r.cache),
                              !.log = [LogCleared(r.log) EXCEPT !.stopCalls = @ + 1]])
    /\ UNCHANGED <<now, args, envToken>>

\* initiateOAuthFlow: await isTokenValid(authToken) is over; a valid token
\* is saved, the cache cleared and the server stopped
OAuthTokenValidated ==
    /\ pc = "oauth_validate"
    /\ tv.status = "done"
    /\ \E iv \in IVs, newSalt \in Salts :
         LET sv == saveToken(configDir, configFile, saltFile, oauth.token, iv, newSalt, now)
             r  == [Cur EXCEPT !.dir = sv.dir, !.file = sv.config, !.salt = sv.salt]
         IN  Become(
               IF ~tv.result
               THEN OAuthFlowCatch(Cur, "Received invalid token from HandCash", args)
               ELSE IF ~sv.ok THEN OAuthFlowCatch(r, sv.error, args)
               ELSE [r EXCEPT !.pc = "oauth_stop",
                              !.cache = clearValidationCache(r.cache),
                              !.log = [LogCleared(r.log) EXCEPT !.stopCalls = @ + 1]])
    /\ UNCHANGED <<now, args, envToken>>

\* await stopOAuthServer(server) is over: server.close has called back
OAuthServerStopped ==
    /\ pc = "oauth_stop"
    /\ Become(OAuthFlowDone([Cur EXCEPT !.oauth.listener = "closed"],
                            oauth.token, oauth.result, args))
    /\ UNCHANGED <<now, args, envToken>>

\* ------------------------------------------------------------------------
\* Specification SpecPay: executePayment driven as a library function, with
\* every argument and option a caller can pass
\* ------------------------------------------------------------------------
API_executePayment ==
    /\ pc = "api"
    /\ PaySettled
    /\ \E amount \in AmountInputs, note \in NoteInputs, token \in Tokens \cup {""},
          maxRetries \in 0..MaxRetriesOption, checkBalance \in BOOLEAN :
         LET r == PayStart(EmptyLog, amount, note, token, maxRetries, checkBalance, "api")
         IN  /\ pay' = r.pay
             /\ log' = r.log
    /\ UNCHANGED <<diskVars, validationCache, now, pc, args, envToken, authToken,
                   exitCode, tv, oauth>>

InitPay ==
    /\ InitDisk
    /\ InitProcess
    /\ pc = "api"

NextPay ==
    \/ API_executePayment
    \/ PayBalanceSettled
    \/ PayAttemptResolved
    \/ PayAttemptRejected
    \/ PaySleepDone

SpecPay == InitPay /\ [][NextPay]_vars

\* ------------------------------------------------------------------------
\* Specification SpecTM: the session validator driven as a library, one call
\* at a time, while the clock advances
\* ------------------------------------------------------------------------
API_isTokenValid ==
    /\ pc = "api"
    /\ tv.status \in {"none", "done"}
    /\ log.validatorCalls < MaxValidatorCalls
    /\ \E token \in Tokens \cup {""} :
         LET r == TvStart(validationCache, log, token, now, "api")
         IN  /\ tv' = r.tv
             /\ validationCache' = r.cache
             /\ log' = r.log
    /\ UNCHANGED <<diskVars, now, pc, args, envToken, authToken, exitCode, pay, oauth>>

API_clearValidationCache ==
    /\ pc = "api"
    /\ tv.status \in {"none", "done"}
    /\ validationCache' = clearValidationCache(validationCache)
    /\ log' = LogCleared(log)
    /\ UNCHANGED <<diskVars, now, pc, args, envToken, authToken, exitCode, pay, tv, oauth>>

\* the instants at which the model looks at the clock: every multiple of
\* the TTL, the millisecond before it and the millisecond after it
ClockInstants ==
    { k * TOKEN_VALIDATION_CACHE_TTL_MS + e : k \in 0..MaxClockTtls, e \in {0 - 1, 0, 1} }
        \cap Nat

\* time passes
Tick ==
    /\ pc = "api"
    /\ \E t \in ClockInstants : t > now /\ now' = t
    /\ UNCHANGED <<diskVars, validationCache, pc, args, envToken, authToken, exitCode,
                   pay, tv, oauth, log>>

InitTM ==
    /\ InitDisk
    /\ InitProcess
    /\ pc = "api"

NextTM ==
    \/ API_isTokenValid
    \/ API_clearValidationCache
    \/ TvLookupSettled
    \/ Tick

SpecTM == InitTM /\ [][NextTM]_vars

\* ------------------------------------------------------------------------
\* Specification SpecStore: the credential store of lib/config.js driven as
\* a library, one call after the other
\* ------------------------------------------------------------------------
\* everything but the store files and the log
storeFrame ==
    <<validationCache, now, pc, args, envToken, authToken, exitCode, pay, tv, oauth>>

API_saveToken ==
    /\ pc = "store"
    /\ \E token \in Tokens \cup {""}, iv \in IVs, newSalt \in Salts :
         LET sv == saveToken(configDir, configFile, saltFile, token, iv, newSalt, now)
         IN  /\ configDir' = sv.dir
             /\ configFile' = sv.config
             /\ saltFile' = sv.salt
             /\ log' = [log EXCEPT !.store =
                    [@ EXCEPT !.op = "saveToken", !.token = "",
                              !.kind = IF sv.ok THEN "ok" ELSE "error",
                              !.error = sv.error,
                              !.saved = IF sv.ok THEN token ELSE @]]
    /\ UNCHANGED storeFrame

API_loadToken ==
    /\ pc = "store"
    /\ \E newSalt \in Salts :
         LET lt == loadToken(configDir, configFile, saltFile, newSalt)
         IN  /\ configDir' = lt.dir
             /\ saltFile' = lt.salt
             /\ log' = [log EXCEPT !.store =
                    [@ EXCEPT !.op = "loadToken", !.kind = lt.kind,
                              !.token = lt.token, !.error = lt.error]]
    /\ UNCHANGED <<configFile, storeFrame>>

API_deleteToken ==
    /\ pc = "store"
    /\ configFile' = IF configFile.exists THEN deleteToken(configFile) ELSE configFile
    /\ log' = [log EXCEPT !.store =
           [@ EXCEPT !.op = "deleteToken", !.token = "", !.error = "",
                     !.kind = IF configFile.exists THEN "true" ELSE "false",
                     !.saved = "", !.modeSet = FALSE]]
    /\ UNCHANGED <<configDir, saltFile, storeFrame>>

API_hasToken ==
    /\ pc = "store"
    /\ log' = [log EXCEPT !.store =
           [@ EXCEPT !.op = "hasToken", !.token = "", !.error = "",
                     !.kind = IF hasToken(configFile) THEN "true" ELSE "false"]]
    /\ UNCHANGED <<diskVars, storeFrame>>

API_setPaymentMode ==
    /\ pc = "store"
    /\ \E mode \in ModeInputs :
         LET m == setPaymentMode(configDir, configFile, mode)
         IN  /\ configDir' = m.dir
             /\ configFile' = m.config
             /\ log' = [log EXCEPT !.store =
                    [@ EXCEPT !.op = "setPaymentMode", !.token = "",
                              !.kind = IF m.ok THEN "ok" ELSE "error",
                              !.error = m.error,
                              !.modeSet = IF m.ok THEN TRUE ELSE @]]
    /\ UNCHANGED <<saltFile, storeFrame>>

InitStore ==
    /\ InitDisk
    /\ InitProcess
    /\ pc = "store"

NextStore ==
    \/ API_saveToken
    \/ API_loadToken
    \/ API_deleteToken
    \/ API_hasToken
    \/ API_setPaymentMode

SpecStore == InitStore /\ [][NextStore]_vars

\* ------------------------------------------------------------------------
\* Specification SpecTamper: the credential store driven as a library while
\* something else on the machine edits the files under ~/.bgit between the
\* calls
\* ------------------------------------------------------------------------
\* the three hex fields of config.encrypted and the bytes each one encodes
EncryptedFields == {"ciphertext", "iv", "authTag"}

FieldLength(encrypted, field) ==
    IF field = "ciphertext" THEN CiphertextLength(encrypted)
    ELSE IF field = "iv" THEN CRYPTO_IV_LENGTH
    ELSE CRYPTO_TAG_LENGTH

\* the record is as encrypt wrote it
Unedited(encrypted) ==
    /\ encrypted.present
    /\ \A field \in EncryptedFields : encrypted[field].edit = "none"

\* decrypt(config.encrypted, key) called by itself with the key of the salt
\* on disk
API_decrypt ==
    /\ pc = "store"
    /\ configFile.exists /\ configFile.parseable
    /\ configFile.json.encrypted.present
    /\ saltFile.exists /\ saltFile.len = CRYPTO_SALT_LENGTH
    /\ LET d == decrypt(configFile.json.encrypted, deriveKey(getMachineId, saltFile.val))
       IN  log' = [log EXCEPT !.store =
               [@ EXCEPT !.op = "decrypt", !.token = d.plaintext, !.error = d.error,
                         !.kind = IF d.ok THEN "plaintext" ELSE "error"]]
    /\ UNCHANGED <<diskVars, storeFrame>>

\* one character of one field of the record is overwritten, or the field is
\* emptied
EnvEditField ==
    /\ pc = "store"
    /\ configFile.exists /\ configFile.parseable
    /\ Unedited(configFile.json.encrypted)
    /\ \E field \in EncryptedFields, edit \in HexEdits \ {"none"} :
         \E at \in 0 .. (FieldLength(configFile.json.encrypted, field) - 1) :
            /\ edit # "nonhex" => at = 0
            /\ configFile' = [configFile EXCEPT !.json.encrypted[field] =
                                 [@ EXCEPT !.edit = edit, !.at = at]]
    /\ log' = [log EXCEPT !.store = [@ EXCEPT !.op = "edit", !.kind = "", !.token = "",
                                              !.error = ""]]
    /\ UNCHANGED <<configDir, saltFile, storeFrame>>

\* config.json is overwritten with text JSON.parse rejects
EnvCorruptJson ==
    /\ pc = "store"
    /\ configFile.exists /\ configFile.parseable
    /\ configFile' = [configFile EXCEPT !.parseable = FALSE, !.json = EmptyConfig]
    /\ log' = [log EXCEPT !.store = [@ EXCEPT !.op = "edit", !.kind = "", !.token = "",
                                              !.error = ""]]
    /\ UNCHANGED <<configDir, saltFile, storeFrame>>

\* a required field of config.json is removed
EnvDropField ==
    /\ pc = "store"
    /\ configFile.exists /\ configFile.parseable
    /\ configFile.json.encrypted.present /\ configFile.json.machineId # ""
    /\ \/ configFile' = [configFile EXCEPT !.json.encrypted = NoEncrypted]
       \/ configFile' = [configFile EXCEPT !.json.machineId = ""]
    /\ log' = [log EXCEPT !.store = [@ EXCEPT !.op = "edit", !.kind = "", !.token = "",
                                              !.error = ""]]
    /\ UNCHANGED <<configDir, saltFile, storeFrame>>

\* the salt file is overwritten with another salt of the right length, so
\* that the machine key is no longer the key the record was written with
EnvReplaceSalt ==
    /\ pc = "store"
    /\ saltFile.exists
    /\ \E salt \in Salts :
         /\ salt # saltFile.val
         /\ saltFile' = [saltFile EXCEPT !.val = salt]
    /\ log' = [log EXCEPT !.store = [@ EXCEPT !.op = "edit", !.kind = "", !.token = "",
                                              !.error = ""]]
    /\ UNCHANGED <<configDir, configFile, storeFrame>>

\* the salt file is cut short, emptied or grows by a byte
EnvResizeSalt ==
    /\ pc = "store"
    /\ saltFile.exists
    /\ saltFile.len = CRYPTO_SALT_LENGTH
    /\ \E len \in {0, CRYPTO_SALT_LENGTH - 1, CRYPTO_SALT_LENGTH + 1} :
         saltFile' = [saltFile EXCEPT !.len = len]
    /\ log' = [log EXCEPT !.store = [@ EXCEPT !.op = "edit", !.kind = "", !.token = "",
                                              !.error = ""]]
    /\ UNCHANGED <<configDir, configFile, storeFrame>>

NextTamper ==
    \/ API_saveToken
    \/ API_loadToken
    \/ API_deleteToken
    \/ API_decrypt
    \/ EnvEditField
    \/ EnvCorruptJson
    \/ EnvDropField
    \/ EnvReplaceSalt
    \/ EnvResizeSalt

SpecTamper == InitStore /\ [][NextTamper]_vars

\* ------------------------------------------------------------------------
\* Specification SpecRepair: the credential store driven as a library,
\* validateConfig and repairConfig included, while something else on the
\* machine edits config.json or changes its permission bits
\* ------------------------------------------------------------------------
\* permission bits other than 0600 a chmod can leave on config.json:
\* 0644 and 0666
LooseModes == {420, 438}

\* chmod on config.json from outside
EnvChmodConfig ==
    /\ pc = "store"
    /\ configFile.exists
    /\ \E mode \in LooseModes :
         /\ mode # configFile.mode
         /\ configFile' = [configFile EXCEPT !.mode = mode]
    /\ log' = [log EXCEPT !.store = [@ EXCEPT !.op = "edit", !.kind = "", !.token = "",
                                              !.error = ""]]
    /\ UNCHANGED <<configDir, saltFile, storeFrame>>

\* validateConfig(); the log keeps the first issue reported
API_validateConfig ==
    /\ pc = "store"
    /\ LET v == validateConfig(configFile)
       IN  log' = [log EXCEPT !.store =
               [@ EXCEPT !.op = "validateConfig", !.token = "",
                         !.kind = IF v.valid THEN "valid" ELSE "invalid",
                         !.error = IF v.issues = <<>> THEN "" ELSE v.issues[1]]]
    /\ UNCHANGED <<diskVars, storeFrame>>

\* repairConfig(); the log keeps whether it warned that the record cannot
\* be repaired
API_repairConfig ==
    /\ pc = "store"
    /\ LET r == repairConfig(configFile)
       IN  /\ configFile' = r.config
           /\ log' = [log EXCEPT !.store =
                  [@ EXCEPT !.op = "repairConfig", !.token = "",
                            !.kind = IF r.repaired THEN "true" ELSE "false",
                            !.error = IF r.warned
                                      THEN "Config file is corrupted and cannot be repaired."
                                      ELSE ""]]
    /\ UNCHANGED <<configDir, saltFile, storeFrame>>

NextRepair ==
    \/ API_saveToken
    \/ API_deleteToken
    \/ API_setPaymentMode
    \/ EnvEditField
    \/ EnvCorruptJson
    \/ EnvDropField
    \/ EnvChmodConfig
    \/ API_validateConfig
    \/ API_repairConfig

SpecRepair == InitStore /\ [][NextRepair]_vars

\* ------------------------------------------------------------------------
\* Specification SpecSalt: the credential store driven as a library, with
\* ensureConfigDir and getMachineKey called directly as well
\* ------------------------------------------------------------------------
API_ensureConfigDir ==
    /\ pc = "store"
    /\ configDir' = ensureConfigDir(configDir)
    /\ log' = [log EXCEPT !.store =
           [@ EXCEPT !.op = "ensureConfigDir", !.kind = "ok", !.token = "",
                     !.error = ""]]
    /\ UNCHANGED <<configFile, saltFile, storeFrame>>

API_getMachineKey ==
    /\ pc = "store"
    /\ \E newSalt \in Salts :
         LET k == getMachineKey(configDir, saltFile, newSalt)
         IN  /\ configDir' = k.dir
             /\ saltFile' = k.salt
             /\ log' = [log EXCEPT !.store =
                    [@ EXCEPT !.op = "getMachineKey", !.token = "",
                              !.kind = IF k.ok THEN "ok" ELSE "error",
                              !.error = k.error]]
    /\ UNCHANGED <<configFile, storeFrame>>

NextSalt ==
    \/ API_saveToken
    \/ API_loadToken
    \/ API_deleteToken
    \/ API_setPaymentMode
    \/ API_ensureConfigDir
    \/ API_getMachineKey

SpecSalt == InitStore /\ [][NextSalt]_vars

\* ------------------------------------------------------------------------
\* Specification SpecOAuth: startOAuthServer(startPort, endPort) called as a
\* library function, its caller awaiting the promise it returned, with a
\* clock for the timeout
\* ------------------------------------------------------------------------
\* how many ports past OAUTH_PORT_START a range may reach
MaxPortSpan == 2

PortInputs == OAUTH_PORT_START .. (OAUTH_PORT_START + MaxPortSpan)

\* the step of the clock
OAuthTickMs == OAUTH_TIMEOUT_MS \div 2

oauthFrame ==
    <<diskVars, validationCache, pc, args, envToken, authToken, exitCode, pay, tv, log>>

API_startOAuthServer ==
    /\ pc = "oauth_wait"
    /\ oauth.listener = "none"
    /\ \E startPort \in PortInputs, endPort \in PortInputs :
         oauth' = startOAuthServer(startPort, endPort, now)
    /\ UNCHANGED <<now, oauthFrame>>

\* time passes while the listener waits, up to the moment the timer is due
OAuthClockTick ==
    /\ oauth.listener = "listening"
    /\ oauth.tokenPromise = "pending"
    /\ now + OAuthTickMs <= oauth.armedAt + OAUTH_TIMEOUT_MS
    /\ now' = now + OAuthTickMs
    /\ UNCHANGED <<oauth, oauthFrame>>

\* the callback of setTimeout(..., OAUTH_TIMEOUT_MS) runs when it is due
OAuthTimerFires ==
    /\ now >= oauth.armedAt + OAUTH_TIMEOUT_MS
    /\ OAuthTimeout

InitOAuth ==
    /\ InitDisk
    /\ InitProcess
    /\ pc = "oauth_wait"

NextOAuth ==
    \/ API_startOAuthServer
    \/ OAuthListenSettled
    \/ OAuthCallback
    \/ OAuthErrorRoute
    \/ OAuthClockTick
    \/ OAuthTimerFires

SpecOAuth == InitOAuth /\ [][NextOAuth]_vars

\* the same with a clock that goes on and an event loop that runs the timers
\* that are due
SpecOAuthFair ==
    /\ InitOAuth
    /\ [][NextOAuth]_vars
    /\ WF_vars(OAuthClockTick)
    /\ WF_vars(OAuthTimerFires)

\* ------------------------------------------------------------------------
\* Specification Spec: the user runs bgit again and again on one machine
\* ------------------------------------------------------------------------
Init ==
    /\ InitDisk
    /\ InitProcess
    /\ pc = "start"

Next ==
    \/ Main
    \/ EnsureAuthenticatedValidated
    \/ TvLookupSettled
    \/ OAuthListenSettled
    \/ OAuthBrowserOpen
    \/ OAuthCallback
    \/ OAuthErrorRoute
    \/ OAuthTimeout
    \/ OAuthServerPromiseSettled
    \/ OAuthTokenValidated
    \/ OAuthServerStopped
    \/ PushPaymentSettled
    \/ GitClosed
    \/ CommitPaymentSettled
    \/ PayAttemptResolved
    \/ PayAttemptRejected
    \/ PaySleepDone

Spec == Init /\ [][Next]_vars

\* ------------------------------------------------------------------------
\* Specification SpecCorrupt: the same user on a machine where bgit had
\* stored a token and config.json was then overwritten or edited
\* ------------------------------------------------------------------------
\* the disk after the first saveToken of an installation
SavedDisk == saveToken(NoDir, NoConfigFile, NoSaltFile, "tokA", "iv1", "saltA", 0)

\* config.json overwritten with text that is no JSON, or with one hex digit
\* of the ciphertext changed
CorruptedRecords ==
    { [SavedDisk.config EXCEPT !.parseable = FALSE, !.json = EmptyConfig],
      [SavedDisk.config EXCEPT !.json.encrypted.ciphertext.edit = "digit"] }

InitCorrupt ==
    /\ configDir = SavedDisk.dir
    /\ saltFile = SavedDisk.salt
    /\ configFile \in CorruptedRecords
    /\ InitProcess
    /\ pc = "start"

SpecCorrupt == InitCorrupt /\ [][Next]_vars

\* ------------------------------------------------------------------------
\* Properties of the dispatcher (specification Spec)
\* ------------------------------------------------------------------------
\* main: const command = args[0]
Command == IF Len(args) > 0 THEN args[1] ELSE ""

\* C1: on a push, once executePayment has raised, git has not been run for
\* the request, and the process exits with code 1
C1_PushBlockedByFailedPayment ==
    (pay.caller = "push" /\ pay.status = "thrown") =>
        /\ log.gitRuns = 0
        /\ pc \in {"push_pay", "exited"}
        /\ (pc = "exited" => exitCode = 1)

\* a push whose payment was given up after the last attempt
C1_Witness ==
    /\ pc = "exited"
    /\ Command = "push"
    /\ pay.caller = "push"
    /\ pay.status = "thrown"
    /\ log.payAttempts = PAYMENT_RETRY_MAX_ATTEMPTS

\* C2: on a commit, when git exits with a code other than 0 or cannot be
\* spawned, executePayment is not called and the process exits with the code
\* reported for git (its exit code; 1 when it could not be spawned)
C2_FailedCommitNotCharged ==
    ( /\ pc = "exited"
      /\ Command = "commit"
      /\ \/ log.git.kind = "spawn-error"
         \/ log.git.kind = "exit" /\ log.git.code # 0 ) =>
        /\ log.payCalls = 0
        /\ exitCode = (IF log.git.kind = "exit" THEN log.git.code ELSE 1)

\* a commit that git refused with 128
C2_Witness ==
    /\ pc = "exited"
    /\ Command = "commit"
    /\ log.git = [kind |-> "exit", code |-> 128]

\* C3: on a commit, when git has exited with 0 and the payment then raises,
\* the process still exits with 0, and the failure is a warning, not an error
C3_CommitSoftFail ==
    (pc = "exited" /\ pay.caller = "commit" /\ pay.status = "thrown") =>
        /\ log.git = [kind |-> "exit", code |-> 0]
        /\ exitCode = 0
        /\ log.warnings > 0
        /\ log.error = ""

\* a commit whose payment ended on an error that is not retried
C3_Witness ==
    /\ pc = "exited"
    /\ pay.caller = "commit"
    /\ pay.status = "thrown"
    /\ ~isRetryableError(pay.lastError)
    /\ log.payAttempts = 1

\* C4: in mode 'universal', every git command run through the dispatcher is
\* charged a payment
C4_UniversalChargesEveryCommand ==
    ( /\ pc = "exited"
      /\ Command \in commands
      /\ log.mode = "universal"
      /\ log.gitRuns > 0 ) =>
        log.payCalls > 0

\* C5: in mode 'minimal' (also when no mode is stored), a command other than
\* commit and push goes straight to git: no ensureAuthenticated, no
\* executePayment, and the exit code of git is the exit code of the process
C5_MinimalPassThrough ==
    ( /\ pc \in {"pass_git", "exited"}
      /\ Command \notin {"", "commit", "push", "auth", "config"}
      /\ log.mode = "minimal" ) =>
        /\ log.authCalls = 0
        /\ log.payCalls = 0
        /\ log.gitRuns = 1
        /\ (pc = "exited" /\ log.git.kind = "exit" => exitCode = log.git.code)

\* `bgit status` on an installation that never stored a mode, git exiting
\* with 128
C5_Witness ==
    /\ pc = "exited"
    /\ Command = "status"
    /\ log.mode = "minimal"
    /\ ~configFile.exists
    /\ log.git = [kind |-> "exit", code |-> 128]

\* C6: a step `bgit config payment-mode m`, m one of the two modes, taken on
\* a store from which loadToken returns a token: afterwards isPaymentGated
\* answers by the command list of m, and loadToken returns the same token
C6_ModeSwitchKeepsToken ==
    [][ ( /\ pc \in {"start", "exited"}
          /\ Len(args') = 3
          /\ args'[1] = "config"
          /\ args'[2] = "payment-mode"
          /\ args'[3] \in {"minimal", "universal"} ) =>
        \A newSalt \in Salts :
            LET before == loadToken(configDir, configFile, saltFile, newSalt)
                after  == loadToken(configDir', configFile', saltFile', newSalt)
            IN  before.kind = "token" =>
                  /\ after.kind = "token"
                  /\ after.token = before.token
                  /\ \A c \in commands :
                       isPaymentGated(configFile', c) =
                         [threw |-> FALSE, gated |-> c \in PAYMENT_MODES(args'[3]).list]
      ]_vars

\* the mode was switched to 'universal' on a store that holds a token
C6_Witness ==
    /\ pc = "exited"
    /\ args = <<"config", "payment-mode", "universal">>
    /\ exitCode = 0
    /\ getPaymentMode(configFile) = "universal"
    /\ \E newSalt \in Salts :
         loadToken(configDir, configFile, saltFile, newSalt).kind = "token"

\* ------------------------------------------------------------------------
\* Properties of executePayment (specification SpecPay)
\* ------------------------------------------------------------------------
\* C7: a call that returns a receipt made one pay attempt more than failed,
\* fewer failed than maxRetries, waited once per failure, and waited
\* min(base * 2^(i-1), maxDelay) after the i-th failure
C7_RetrySchedule ==
    pay.status = "returned" =>
        /\ log.payAttempts = log.payFailures + 1
        /\ log.payFailures < pay.maxRetries
        /\ Len(log.sleeps) = log.payFailures
        /\ \A i \in 1..Len(log.sleeps) :
             log.sleeps[i] = IF PAYMENT_RETRY_BASE_DELAY_MS * 2^(i - 1)
                                   < PAYMENT_RETRY_MAX_DELAY_MS
                             THEN PAYMENT_RETRY_BASE_DELAY_MS * 2^(i - 1)
                             ELSE PAYMENT_RETRY_MAX_DELAY_MS

\* two failures, then the receipt, with the default of three attempts
C7_Witness ==
    /\ pay.status = "returned"
    /\ pay.maxRetries = PAYMENT_RETRY_MAX_ATTEMPTS
    /\ log.payFailures = 2
    /\ log.sleeps = <<1000, 2000>>

\* the text of an error speaks of insufficient funds or of an invalid or
\* unauthorized token
IndicatesTerminal(message) ==
    LET m == ToLowerCase(message)
    IN  \/ Includes(m, "insufficient")
        \/ Includes(m, "invalid token")
        \/ Includes(m, "unauthorized")

\* C8: once a pay attempt has failed with an error whose text indicates
\* insufficient funds or an invalid or unauthorized token, executePayment has
\* raised: it is neither waiting nor attempting again
C8_TerminalErrorStops ==
    (pay.lastError # "" /\ IndicatesTerminal(pay.lastError)) => pay.status = "thrown"

\* C9: a call with an empty token or an amount that is not greater than 0
\* has raised, and made no account lookup, balance query or pay attempt
C9_PreconditionsBeforeProvider ==
    (pay.status # "none" /\ (pay.token = "" \/ pay.amount <= 0)) =>
        /\ pay.status = "thrown"
        /\ log.accountLookups = 0
        /\ log.balanceQueries = 0
        /\ log.payAttempts = 0
        /\ log.sleeps = <<>>

\* a call with a token, amount 0 and the balance check asked for
C9_Witness ==
    /\ pay.status = "thrown"
    /\ pay.amount = 0
    /\ pay.token # ""
    /\ pay.checkBalance

\* ------------------------------------------------------------------------
\* Properties of the token validator (specification SpecTM)
\* ------------------------------------------------------------------------
\* the step is a call of isTokenValid
IsTokenValidCalled == log'.validatorCalls = log.validatorCalls + 1

\* C10: a call of isTokenValid with a non-empty token whose verdict arrived
\* no longer than the TTL ago, and after the last clearValidationCache, makes
\* no remote lookup and returns that verdict; a call with a non-empty token
\* that has no verdict since the last clearValidationCache makes one lookup
C10_CachedWithinTtlFreshAfterClear ==
    [][ (IsTokenValidCalled /\ tv'.token # "") =>
        LET t == tv'.token
        IN  /\ ( /\ log.verdictAt[t] >= 0
                 /\ now - log.verdictAt[t] <= TOKEN_VALIDATION_CACHE_TTL_MS ) =>
                   /\ log'.profileLookups = log.profileLookups
                   /\ tv'.status = "done"
                   /\ tv'.result = validationCache[t].valid
            /\ log.verdictAt[t] < 0 =>
                   /\ log'.profileLookups = log.profileLookups + 1
                   /\ tv'.status = "lookup"
      ]_vars

\* a lookup, a call answered from the cache, clearValidationCache, and a call
\* that looks up again, all within one TTL
C10_Witness ==
    /\ tv.status = "lookup"
    /\ log.validatorCalls = 3
    /\ log.cacheHits = 1
    /\ log.profileLookups = 2
    /\ validationCache = EmptyCache
    /\ now < TOKEN_VALIDATION_CACHE_TTL_MS

\* C10 as stated, for any token: a call within the TTL of the token's
\* verdict makes no lookup, and a call for any token that has no verdict
\* since the last clearValidationCache makes one lookup
C10_FreshAfterClearAnyToken ==
    [][ IsTokenValidCalled =>
        LET t == tv'.token
        IN  /\ ( /\ t \in Tokens
                 /\ log.verdictAt[t] >= 0
                 /\ now - log.verdictAt[t] <= TOKEN_VALIDATION_CACHE_TTL_MS ) =>
                   log'.profileLookups = log.profileLookups
            /\ (t \notin Tokens \/ log.verdictAt[t] < 0) =>
                   log'.profileLookups = log.profileLookups + 1
      ]_vars

\* C11: isTokenValid always ends with a boolean (there is no way out of it
\* by an exception), and for a non-empty token the boolean says whether the
\* provider's last answer for the token was a profile with a non-empty
\* handle; for the empty token it is false
C11_FailsClosed ==
    /\ tv.status \in {"none", "lookup", "done"}
    /\ tv.status = "done" =>
         /\ tv.result \in BOOLEAN
         /\ tv.result = (tv.token \in Tokens /\ log.handle[tv.token])

\* a call answered true from the cache, after a lookup that found a handle
C11_Witness ==
    /\ tv.status = "done"
    /\ tv.result
    /\ log.cacheHits > 0
    /\ log.handle[tv.token]

TokenStored == configFile.exists /\ configFile.json.encrypted.present

\* C13: ensureAuthenticated without HANDCASH_AUTH_TOKEN.  When it is called:
\* with no stored token the OAuth flow is started, with a stored token the
\* token is validated and no flow is started yet.  When the validation is
\* over: a valid token is returned to the dispatcher and no flow is started,
\* an invalid one starts the flow
C13_FlowExactlyWhenAbsentOrInvalid ==
    [][ /\ ( /\ pc \in {"start", "exited"}
             /\ envToken' = ""
             /\ log'.authCalls = 1 ) =>
               /\ ~TokenStored => log'.oauthFlows = 1 /\ pc' = "oauth_open"
               /\ TokenStored => log'.oauthFlows = 0 /\ pc' = "ea_validate"
        /\ ( /\ pc = "ea_validate"
             /\ pc' # "ea_validate" ) =>
               /\ tv.result => /\ log'.oauthFlows = 0
                               /\ authToken' = tv.token
                               /\ pc' \in {"commit_git", "push_pay", "pass_git"}
               /\ ~tv.result => log'.oauthFlows = 1 /\ pc' = "oauth_open"
      ]_vars

TagMismatch(file, salt) ==
    LET e == file.json.encrypted
    IN  \/ e.ciphertext.edit \in {"digit", "nonhex"}
        \/ e.iv.edit \in {"digit", "nonhex"}
        \/ e.authTag.edit = "digit"
        \/ salt.exists /\ e.ciphertext.key.salt # salt.val

\* config.json exists and is not parseable, lacks a required field, or
\* carries a tag that cannot verify
RecordCorrupted(file, salt) ==
    /\ file.exists
    /\ \/ ~file.parseable
       \/ ~file.json.encrypted.present
       \/ file.json.machineId = ""
       \/ TagMismatch(file, salt)

\* C15: loadToken never modifies or deletes config.json, and on a record
\* that is not parseable JSON, misses a required field or whose
\* authentication tag does not verify it fails with an error and returns no
\* token.
C15_CorruptedRecordFailsUntouched ==
    [][ log'.store.op = "loadToken" =>
          /\ configFile' = configFile
          /\ RecordCorrupted(configFile, saltFile') =>
               /\ log'.store.kind = "error"
               /\ log'.store.token = "" ]_vars

\* a saved token whose tag had one byte changed was loaded and refused as
\* tampered, the record still on disk as it was
C15_Witness ==
    /\ log.store.op = "loadToken"
    /\ log.store.kind = "error"
    /\ log.store.error = "Config file has been tampered with. Please re-authenticate."
    /\ log.store.saved # ""
    /\ configFile.exists
    /\ configFile.json.encrypted.authTag.edit = "digit"
    /\ configFile.json.encrypted.ciphertext.plain = log.store.saved

\* ------------------------------------------------------------------------
\* C16  (SpecTamper)
\* ------------------------------------------------------------------------
\* one character of the text of one of the three fields is not the
\* character encrypt wrote
SingleByteEdited(encrypted) ==
    /\ encrypted.present
    /\ \E field \in EncryptedFields :
         /\ encrypted[field].edit \in {"digit", "case", "nonhex"}
         /\ \A other \in EncryptedFields \ {field} : encrypted[other].edit = "none"

\* C16: decrypt on a record in which one byte of ciphertext, iv or authTag
\* is not the byte encrypt produced fails with the tamper/wrong-key error
\* and returns no plaintext.
C16_SingleByteEditIsTamperError ==
    (log.store.op = "decrypt" /\ SingleByteEdited(configFile.json.encrypted)) =>
        /\ log.store.kind = "error"
        /\ log.store.token = ""
        /\ log.store.error =
             "Decryption failed: Data has been tampered with or wrong encryption key"

\* ------------------------------------------------------------------------
\* C17  (SpecOAuth)
\* ------------------------------------------------------------------------
\* C17: startOAuthServer binds the lowest port of startPort..endPort that is
\* free: it tries the ports in ascending order, goes on to the next port
\* only after address-in-use, gives up at once with the error of any other
\* bind failure, and fails when every port of the range is in use.
C17_LowestFreePort ==
    LET n    == Len(oauth.tried)
        span == IF oauth.startPort <= oauth.endPort
                THEN oauth.endPort - oauth.startPort + 1 ELSE 0
    IN  oauth.listener # "none" =>
          /\ n <= span
          /\ \A i \in 1 .. (n - 1) : oauth.tried[i] = "EADDRINUSE"
          /\ oauth.listener = "binding" =>
               /\ n < span
               /\ oauth.port = oauth.startPort + n
               /\ \A i \in 1 .. n : oauth.tried[i] = "EADDRINUSE"
          /\ oauth.listener = "listening" =>
               /\ n >= 1 /\ oauth.tried[n] = "listening"
               /\ oauth.port = oauth.startPort + n - 1
               /\ oauth.port \in oauth.startPort .. oauth.endPort
          /\ oauth.listener = "failed" =>
               IF n >= 1 /\ oauth.tried[n] # "EADDRINUSE"
               THEN /\ oauth.tried[n] = "EACCES"
                    /\ oauth.error = "Failed to start OAuth server: EACCES"
               ELSE /\ n = span
                    /\ oauth.error = AllPortsInUse(oauth.startPort, oauth.endPort)

\* the first two ports of a range of three were in use and the third was
\* bound
C17_Witness ==
    /\ oauth.listener = "listening"
    /\ oauth.startPort = OAUTH_PORT_START
    /\ oauth.endPort = OAUTH_PORT_START + 2
    /\ oauth.port = OAUTH_PORT_START + 2
    /\ oauth.tried = <<"EADDRINUSE", "EADDRINUSE", "listening">>

\* ------------------------------------------------------------------------
\* C18  (SpecOAuthFair)
\* ------------------------------------------------------------------------
\* the class of a settled token promise
OAuthOutcome(o) ==
    IF o.tokenPromise = "resolved" /\ o.token # "" THEN "TokenCaptured"
    ELSE IF o.tokenPromise = "rejected"
            /\ o.error = "OAuth timeout: No authorization received within 5 minutes"
    THEN "TimedOut"
    ELSE IF o.tokenPromise = "rejected"
            /\ o.error \in {"OAuth error: access denied",
                            "No auth token received in callback"}
    THEN "ProviderError"
    ELSE "none"

\* C18: once the listener is listening, the promise it returned is
\* eventually settled; it is settled once, as a captured token, a provider
\* error or a timeout; it is never pending more than five minutes after the
\* timer was armed, and it times out only when those five minutes are over.
C18_ListenerSettles ==
    /\ (oauth.listener = "listening") ~> (ServerPromise(oauth) # "pending")
    /\ [](oauth.listener = "listening" =>
            /\ ServerPromise(oauth) = "pending" =>
                 now <= oauth.armedAt + OAUTH_TIMEOUT_MS
            /\ ServerPromise(oauth) # "pending" =>
                 OAuthOutcome(oauth) \in {"TokenCaptured", "ProviderError", "TimedOut"}
            /\ OAuthOutcome(oauth) = "TimedOut" =>
                 now >= oauth.armedAt + OAUTH_TIMEOUT_MS)
    /\ [][(oauth.listener = "listening" /\ ServerPromise(oauth) # "pending") =>
             oauth' = oauth]_vars

\* five minutes went by on a listening port and the promise was rejected
\* with the timeout error
C18_Witness ==
    /\ oauth.listener = "listening"
    /\ OAuthOutcome(oauth) = "TimedOut"
    /\ ServerPromise(oauth) = "rejected"
    /\ now = oauth.armedAt + OAUTH_TIMEOUT_MS

\* ------------------------------------------------------------------------
\* C19  (Spec)
\* ------------------------------------------------------------------------
\* ensureAuthenticated has raised in this process
AuthenticationFailed == Includes(log.error, "Authentication failed: ")

\* C19: when ensureAuthenticated fails for a payment-gated command, git is
\* not run, executePayment is not called, and the process exits with code 1.
C19_AuthFailureBlocksOperation ==
    AuthenticationFailed =>
        /\ log.gitRuns = 0
        /\ log.git.kind = "none"
        /\ log.payCalls = 0
        /\ log.payAttempts = 0
        /\ pc = "exited"
        /\ exitCode = 1

\* a commit in minimal mode whose OAuth flow timed out
C19_Witness ==
    /\ pc = "exited"
    /\ Command = "commit"
    /\ log.mode = "minimal"
    /\ log.authCalls = 1
    /\ log.oauthFlows = 1
    /\ log.error = "Authentication failed: OAuth timeout: No authorization received within 5 minutes"
    /\ exitCode = 1

\* ------------------------------------------------------------------------
\* C20  (Spec)
\* ------------------------------------------------------------------------
\* initiateOAuthFlow has raised in this process, after its listener had
\* bound a port
OAuthFlowFailed ==
    /\ pc = "exited"
    /\ log.oauthFlows = 1
    /\ oauth.listener \in {"listening", "closed"}
    /\ \/ Includes(log.error, "Authentication failed: ")
       \/ Includes(log.error, "Login failed: ")

\* C20: when the interactive flow fails (timeout, error route, callback
\* without token, invalid captured token, token not saved), stopOAuthServer
\* has been called on the listener by the time the error reaches the caller
\* of initiateOAuthFlow.
C20_FlowFailureStopsListener ==
    OAuthFlowFailed =>
        /\ log.stopCalls >= 1
        /\ oauth.listener = "closed"

\* ------------------------------------------------------------------------
\* C21  (Spec)
\* ------------------------------------------------------------------------
\* C21: in the interactive flow the browser is opened on the redirect URL
\* only when the callback listener is bound and listening.
C21_ListeningBeforeBrowser ==
    [][(oauth.browser = "none" /\ oauth'.browser = "opened") =>
          oauth.listener = "listening"]_vars

\* ------------------------------------------------------------------------
\* C23  (SpecCorrupt)
\* ------------------------------------------------------------------------
\* config.json is there and is no JSON, or its ciphertext was edited
UnparseableOrTampered(file) ==
    /\ file.exists
    /\ \/ ~file.parseable
       \/ file.json.encrypted.present /\ file.json.encrypted.ciphertext.edit = "digit"

\* C23: a command that needs authentication, started without an injected
\* token while config.json is unparseable or tampered with, goes on to the
\* interactive OAuth flow in the same process.
C23_CorruptionTriggersOAuth ==
    [][(/\ pc \in {"start", "exited"}
        /\ log'.authCalls = 1
        /\ envToken' = ""
        /\ UnparseableOrTampered(configFile)) =>
          /\ log'.oauthFlows = 1
          /\ pc' = "oauth_open"]_vars

C24_TerminalErrorCarriesHint ==
    (pay.status = "thrown" /\ pay.lastError # "" /\ ~isRetryableError(pay.lastError)) =>
        /\ Includes(pay.thrown, pay.lastError)
        /\ \/ Includes(pay.thrown, "Add funds at: https://handcash.io")
           \/ Includes(pay.thrown, "Please run: bgit auth login")

\* ------------------------------------------------------------------------
\* C25  (Spec)
\* ------------------------------------------------------------------------
\* C25: on a push, git is run once, and only after executePayment has
\* returned a receipt: one payment call with exactly one successful attempt;
\* when git has exited, its exit code is the exit code of the process (1
\* when git could not be spawned), and the payment stays as it was.
C25_PushPaysThenReportsGit ==
    (Command = "push" /\ log.gitRuns > 0) =>
        /\ log.gitRuns = 1
        /\ pc \in {"push_git", "exited"}
        /\ pay.caller = "push"
        /\ pay.status = "returned"
        /\ log.payCalls = 1
        /\ log.paySuccesses = 1
        /\ log.payAttempts = log.payFailures + 1
        /\ (pc = "exited" /\ log.git.kind = "exit") => exitCode = log.git.code
        /\ (pc = "exited" /\ log.git.kind = "spawn-error") => exitCode = 1

\* a push paid at the second attempt and then refused by the remote: the
\* process exits with git's 128
C25_Witness ==
    /\ pc = "exited"
    /\ Command = "push"
    /\ log.payFailures = 1
    /\ log.paySuccesses = 1
    /\ log.git = [kind |-> "exit", code |-> 128]
    /\ exitCode = 128

\* ------------------------------------------------------------------------
\* C26  (SpecPay)
\* ------------------------------------------------------------------------
\* C26: a call of executePayment with a token, an amount greater than 0 and
\* maxRetries = N >= 1 never has more than N pay calls and never a pay call
\* after one that succeeded; once settled it has issued between 1 and N pay
\* calls; it returns after exactly one success, and raises with no success,
\* after a failure that is not retryable or after the N-th failure.
C26_AttemptsWithinBudget ==
    ( /\ pay.status # "none"
      /\ pay.maxRetries >= 1
      /\ PaymentPreconditionError(pay.amount, pay.token) = "" ) =>
        /\ log.payAttempts <= pay.maxRetries
        /\ log.paySuccesses <= 1
        /\ log.paySuccesses = 1 => pay.status = "returned"
        /\ pay.status \in {"returned", "thrown"} =>
             /\ log.payAttempts >= 1
             /\ log.payAttempts = log.payFailures + log.paySuccesses
        /\ pay.status = "returned" => log.paySuccesses = 1
        /\ pay.status = "thrown" =>
             /\ log.paySuccesses = 0
             /\ \/ ~isRetryableError(pay.lastError)
                \/ log.payFailures = pay.maxRetries

\* four retryable failures in a row with maxRetries = 4
C26_Witness ==
    /\ pay.status = "thrown"
    /\ pay.maxRetries = 4
    /\ pay.token # ""
    /\ pay.amount > 0
    /\ log.payAttempts = 4
    /\ log.payFailures = 4
    /\ isRetryableError(pay.lastError)

\* C26 as stated, for every call with maxRetries = N >= 1: once settled it
\* has issued between 1 and N pay calls, and it has raised only after a
\* failure that is not retryable or after the N-th failure
C26_BetweenOneAndNPayCalls ==
    (pay.maxRetries >= 1 /\ pay.status \in {"returned", "thrown"}) =>
        /\ log.payAttempts >= 1
        /\ log.payAttempts <= pay.maxRetries
        /\ log.paySuccesses <= 1
        /\ pay.status = "thrown" =>
             \/ pay.lastError # "" /\ ~isRetryableError(pay.lastError)
             \/ log.payFailures = pay.maxRetries

\* ------------------------------------------------------------------------
\* C27  (SpecPay)
\* ------------------------------------------------------------------------
\* C27: when the balance query of a call with checkBalance fails, a warning
\* is logged and nothing is raised for it: the pay calls are issued as for
\* any call (at least one when maxRetries >= 1), the call returns exactly
\* when a pay call succeeded, and what it raises is the error of its last
\* failed pay call.
C27_BalanceQueryFailureOnlyWarns ==
    (pay.balance = "error" /\ pay.maxRetries >= 1) =>
        /\ pay.checkBalance
        /\ log.balanceQueries = 1
        /\ log.warnings >= 1
        /\ log.payAttempts >= 1
        /\ pay.status \in {"attempt", "sleep", "returned", "thrown"}
        /\ pay.status = "returned" <=> log.paySuccesses = 1
        /\ pay.status = "thrown" =>
             /\ log.payFailures >= 1
             /\ pay.lastError \in ProviderErrors
             /\ pay.thrown = enhancePaymentError(pay.lastError)

\* the balance query failed and the first pay call went through
C27_Witness ==
    /\ pay.balance = "error"
    /\ pay.status = "returned"
    /\ log.warnings = 1
    /\ log.payAttempts = 1
    /\ log.paySuccesses = 1

\* ------------------------------------------------------------------------
\* C28  (Spec)
\* ------------------------------------------------------------------------
\* C28: when `bgit auth logout` has deleted the stored token, and when the
\* interactive flow has saved the token it captured, the validation cache
\* holds no verdict for any token.
C28_CacheEmptyAfterLogoutAndReauth ==
    [][/\ (/\ pc \in {"start", "exited"}
           /\ args' = <<"auth", "logout">>
           /\ configFile.exists) =>
             /\ ~configFile'.exists
             /\ validationCache' = EmptyCache
       /\ (pc = "oauth_validate" /\ configFile' # configFile) =>
             /\ validationCache' = EmptyCache
             /\ validationCache # EmptyCache]_vars

\* a stored token was found invalid, another was captured, validated and
\* saved, and the two verdicts are gone from the cache
C28_Witness ==
    /\ pc = "oauth_stop"
    /\ oauth.caller = "ea"
    /\ oauth.result = ""
    /\ log.validatorCalls = 2
    /\ log.profileLookups = 2
    /\ configFile.exists
    /\ configFile.json.encrypted.ciphertext.plain = oauth.token
    /\ validationCache = EmptyCache

\* ------------------------------------------------------------------------
\* C29  (SpecTM)
\* ------------------------------------------------------------------------
\* C29: a call of isTokenValid for a token whose verdict was written (and
\* not cleared since) is answered from the cache exactly when no more than
\* the TTL of one hour has passed since the write; the answer leaves the
\* entry and its write time as they are; a call that comes later than the
\* TTL removes the entry and looks the token up remotely.
C29_TtlFromWriteTime ==
    [][(IsTokenValidCalled /\ tv'.token # "" /\ log.verdictAt[tv'.token] >= 0) =>
        LET t == tv'.token
        IN  /\ validationCache[t].present
            /\ validationCache[t].timestamp = log.verdictAt[t]
            /\ IF now - log.verdictAt[t] <= TOKEN_VALIDATION_CACHE_TTL_MS
               THEN /\ log'.cacheHits = log.cacheHits + 1
                    /\ log'.profileLookups = log.profileLookups
                    /\ tv'.status = "done"
                    /\ tv'.result = validationCache[t].valid
                    /\ validationCache' = validationCache
               ELSE /\ log'.cacheHits = log.cacheHits
                    /\ log'.profileLookups = log.profileLookups + 1
                    /\ tv'.status = "lookup"
                    /\ validationCache' = [validationCache EXCEPT ![t] = NoEntry]
      ]_vars

\* a verdict written at 0, served once from the cache, and looked up again
\* one millisecond after the hour, the entry removed
C29_Witness ==
    /\ tv.status = "lookup"
    /\ tv.token \in Tokens
    /\ log.verdictAt[tv.token] = 0
    /\ now = TOKEN_VALIDATION_CACHE_TTL_MS + 1
    /\ log.cacheHits = 1
    /\ log.profileLookups = 2
    /\ validationCache[tv.token] = NoEntry

\* ------------------------------------------------------------------------
\* C30  (SpecTamper)
\* ------------------------------------------------------------------------
\* C30: while the salt file is there and is not 32 bytes long, saveToken
\* fails, loadToken fails on every record that has its required fields,
\* with the error of getMachineKey, and neither call writes the salt file or
\* config.json: the salt is not replaced and nothing is encrypted with a
\* key derived from it.
C30_BadSaltIsCorruption ==
    [][(/\ saltFile.exists
        /\ saltFile.len # CRYPTO_SALT_LENGTH
        /\ log'.store.op \in {"saveToken", "loadToken"}) =>
          /\ saltFile' = saltFile
          /\ configFile' = configFile
          /\ log'.store.token = ""
          /\ log'.store.op = "saveToken" =>
               /\ log'.store.kind = "error"
               /\ log'.store.error \in
                    { "Auth token must be a non-empty string",
                      "Failed to save token: Failed to get machine key: Invalid salt file (corrupted)" }
          /\ (/\ log'.store.op = "loadToken"
              /\ configFile.exists /\ configFile.parseable
              /\ configFile.json.encrypted.present
              /\ configFile.json.machineId # "") =>
               /\ log'.store.kind = "error"
               /\ log'.store.error =
                    "Failed to load token: Failed to get machine key: Invalid salt file (corrupted)"
      ]_vars

\* a token was saved, the salt file then lost a byte, and loadToken refused
\* to derive the key
C30_Witness ==
    /\ log.store.op = "loadToken"
    /\ log.store.kind = "error"
    /\ log.store.error =
         "Failed to load token: Failed to get machine key: Invalid salt file (corrupted)"
    /\ log.store.saved # ""
    /\ saltFile.exists
    /\ saltFile.len = CRYPTO_SALT_LENGTH - 1
    /\ Unedited(configFile.json.encrypted)

C33_HasTokenMeansLoadable ==
    ( /\ log.store.op = "hasToken"
      /\ log.store.kind = "true" ) =>
        /\ log.store.saved # ""
        /\ \A newSalt \in Salts :
              loadToken(configDir, configFile, saltFile, newSalt).kind = "token"

\* ------------------------------------------------------------------------
\* C34, for the same sequences: once setPaymentMode has succeeded, a
\* saveToken or a deleteToken leaves the answer of getPaymentMode as it was
\* ------------------------------------------------------------------------
C34_AuthKeepsPaymentMode ==
    [][ ( /\ log.store.modeSet
          /\ log'.store.op \in {"saveToken", "deleteToken"} ) =>
            getPaymentMode(configFile') = getPaymentMode(configFile)
      ]_vars

\* ------------------------------------------------------------------------
\* C35: when initiateOAuthFlow has captured a token and calls isTokenValid
\* on it, the call is not answered from the validation cache: a profile
\* lookup is started for the captured token, and the verdict applied to it
\* is the one that lookup brings
\* ------------------------------------------------------------------------
C35_CapturedTokenLookedUpAfresh ==
    [][ ( /\ pc = "oauth_wait"
          /\ pc' = "oauth_validate" ) =>
            /\ log'.cacheHits = log.cacheHits
            /\ log'.profileLookups = log.profileLookups + 1
            /\ tv'.status = "lookup"
            /\ tv'.token = oauth.token
      ]_vars

\* ------------------------------------------------------------------------
\* C36: when `bgit auth login` has exited, config.json holds a token record
\* exactly when the process exited with code 0.  Then the OAuth flow of
\* this process captured a token that was judged valid, and loadToken
\* returns this very token.  Otherwise the exit code is 1, the error
\* printed is 'Login failed: ...' and there is no config.json, whatever was
\* stored before.
\* ------------------------------------------------------------------------
C36_LoginStoresExactlyCapturedToken ==
    ( /\ pc = "exited"
      /\ args = <<"auth", "login">> ) =>
        /\ exitCode \in {0, 1}
        /\ TokenStored <=> exitCode = 0
        /\ exitCode = 0 =>
              /\ log.oauthFlows = 1
              /\ oauth.tokenPromise = "resolved"
              /\ tv.caller = "oauth" /\ tv.token = oauth.token /\ tv.result
              /\ \A newSalt \in Salts :
                    LET lt == loadToken(configDir, configFile, saltFile, newSalt)
                    IN  lt.kind = "token" /\ lt.token = oauth.token
        /\ exitCode = 1 =>
              /\ ~configFile.exists
              /\ SubSeq(log.error, 1, 14) = "Login failed: "

\* a login has failed in a process that found config.json in place when it
\* started (it held the mode 'universal'), on a machine where a token had
\* been saved before: the record is gone
C36_Witness ==
    /\ pc = "exited"
    /\ args = <<"auth", "login">>
    /\ exitCode = 1
    /\ log.mode = "universal"
    /\ saltFile.exists
    /\ ~configFile.exists
    /\ log.oauthFlows = 1

\* ------------------------------------------------------------------------
\* C37, for sequences of saveToken, loadToken, deleteToken, setPaymentMode,
\* ensureConfigDir and getMachineKey: once the salt file exists, no call
\* removes it or changes its content, so getMachineKey returns the same
\* key before and after every call; and when loadToken would return a
\* token before a call that leaves the encrypted record in config.json as
\* it was, loadToken returns the same token after it
\* ------------------------------------------------------------------------
C37_SaltWrittenOnce ==
    [][ saltFile.exists =>
          /\ saltFile'.exists
          /\ saltFile'.val = saltFile.val
          /\ saltFile'.len = saltFile.len
          /\ \A newSalt \in Salts :
                LET before == getMachineKey(configDir, saltFile, newSalt)
                    after  == getMachineKey(configDir', saltFile', newSalt)
                IN  before.ok /\ after.ok /\ after.key = before.key
          /\ \A newSalt \in Salts :
                LET before == loadToken(configDir, configFile, saltFile, newSalt)
                    after  == loadToken(configDir', configFile', saltFile', newSalt)
                IN  ( /\ before.kind = "token"
                      /\ configFile'.exists
                      /\ configFile'.json.encrypted = configFile.json.encrypted ) =>
                        after.kind = "token" /\ after.token = before.token
      ]_vars

\* getMachineKey was called with a token in the store and the salt in
\* place, the payment mode was set after the token was saved, and loadToken
\* returns the token saved
C37_Witness ==
    /\ log.store.op = "getMachineKey"
    /\ log.store.kind = "ok"
    /\ log.store.saved = "tokA"
    /\ log.store.modeSet
    /\ configFile.exists
    /\ configFile.json.paymentMode = "universal"
    /\ saltFile.exists
    /\ \A newSalt \in Salts :
          loadToken(configDir, configFile, saltFile, newSalt).token = "tokA"

====
